---- MODULE Spec2Model ----
(***************************************************************************)
(* zip_write.h: streaming ZIP64 writer with a fixed-Huffman DEFLATE        *)
(* encoder (zw_create_ex, zw_begin_file, zw_write, zw_finish).             *)
(*                                                                         *)
(* The archive session (struct zw__zip_details) is the record `archive`.   *)
(* Every function of the source is an operator from a session record to a  *)
(* session record; a public operation is one action.  The sink behind      *)
(* archive->stream is the environment: what it has been handed is kept in  *)
(* archive.stream.sink, and each public operation draws a `plan` saying    *)
(* which of the sink invocations made during the operation (if any) fails, *)
(* how many bytes it then accepts and which error code it sets.            *)
(*                                                                         *)
(* Buffer sizes are scaled (InTotal, OutTotal, HashBits, Quality); record  *)
(* sizes, Huffman codes, CRC table and length/distance tables are the      *)
(* program's own.  32-bit words that do not fit a TLC integer (CRC, hash)  *)
(* are pairs <<high 16 bits, low 16 bits>>.                                *)
(***************************************************************************)
EXTENDS Integers, Sequences, FiniteSets, TLC

VARIABLES archive,   \* the session: struct zw__zip_details, with the sink's state
          call,      \* the last public operation called, its argument, the state before
          result,    \* what that operation returned
          nops,      \* number of public operations called so far
          cmv        \* cpuid_multiver.h: the version array, the function pointer, its callers

vars == <<archive, call, result, nops, cmv>>

----------------------------------------------------------------------------
(* Bounds of the model *)

\* in_total: bytes of input batched before a flush (32768 in the source)
InTotal == 5
\* out_total: size of the compressed output buffer (32768 in the source)
OutTotal == 3
\* zw__hash_size is 2^HashBits (2^14 in the source)
HashBits == 1
\* quality: a hash chain is halved at 2*quality entries (8 in the source)
Quality == 2
\* public operations per session
MaxOps == 3
\* the failing sink invocation of an operation is one of its first MaxFailAt
MaxFailAt == 5

\* public operations before zw_finish in a session whose sink never fails
MaxSteadyOps == 4

\* zw_begin_file calls in a session that is offered long paths
MaxNameOps == 2

\* zw_begin_file calls in a session created at one of several clock readings
MaxClockOps == 2
\* operations of a session that exercises the match finder
MaxMatchOps == 3
\* the encoder's quality in those sessions: a chain holds 2 * MatchQuality entries
MatchQuality == 1

\* calls each caller makes through the function pointer
MaxCalls == 2
\* entries past the end of a version array that resolve may read before it faults
MaxOverread == 2

\* the byte values written: one with an 8-bit literal code, one with a 9-bit one
ByteValues == {65, 200}

----------------------------------------------------------------------------
(* Program constants *)

sizeof_local_file_header == 30
sizeof_data_descriptor == 12
sizeof_central_dir_file_header == 46
sizeof_info64 == 28
sizeof_end_of_central_dir_64 == 56
sizeof_end_of_central_dir_locator_64 == 20
sizeof_end_of_central_dir == 22
name_buf_size == 64
name_min_capacity == 260
max_name_length == 65534
max_match == 258
sentinel16 == 65535
\* unsigned bitbuf
bitbuf_width == 32

zw__hash_size == 2 ^ HashBits

lengthc == <<3,4,5,6,7,8,9,10,11,13,15,17,19,23,27,31,35,43,51,59,67,83,99,115,131,163,195,227,258,259>>
lengtheb == <<0,0,0,0,0,0,0,0,1,1,1,1,2,2,2,2,3,3,3,3,4,4,4,4,5,5,5,5,0>>
distc == <<1,2,3,4,5,7,9,13,17,25,33,49,65,97,129,193,257,385,513,769,1025,1537,2049,3073,4097,6145,8193,12289,16385,24577,32768>>
disteb == <<0,0,0,0,1,1,2,2,3,3,4,4,5,5,6,6,7,7,8,8,9,9,10,10,11,11,12,12,13,13>>

\* crc_table[n+1] is the source's crc_table[n], as <<high 16 bits, low 16 bits>>
crc_table == <<
    <<0,0>>, <<30471,12438>>, <<60942,24876>>, <<39177,20922>>, <<1901,50201>>, <<28778,62607>>, <<59747,42293>>, <<40548,38307>>,
    <<3803,34866>>, <<31196,47268>>, <<57557,59678>>, <<38866,55688>>, <<2486,19499>>, <<32433,31933>>, <<59320,11527>>, <<37055,7569>>,
    <<7607,4196>>, <<27312,8434>>, <<62393,29000>>, <<33982,16862>>, <<6874,54397>>, <<28125,58603>>, <<62676,46417>>, <<33747,34247>>,
    <<4972,38998>>, <<25707,43200>>, <<64866,63866>>, <<35429,51692>>, <<5121,23631>>, <<25350,27865>>, <<64015,15715>>, <<36104,3573>>,
    <<15214,8392>>, <<19561,4190>>, <<54624,16868>>, <<41575,29042>>, <<15363,58577>>, <<19204,54343>>, <<53773,34301>>, <<42250,46443>>,
    <<13749,43258>>, <<17074,39020>>, <<56251,51670>>, <<44220,63808>>, <<13016,27875>>, <<17887,23669>>, <<56534,3535>>, <<43985,15705>>,
    <<9945,12460>>, <<20958,58>>, <<51415,20864>>, <<49104,24854>>, <<8628,62645>>, <<22195,50211>>, <<53178,38297>>, <<47293,42255>>,
    <<10242,47262>>, <<24325,34824>>, <<50700,55730>>, <<45323,59684>>, <<12143,31879>>, <<22632,19473>>, <<49505,7595>>, <<46694,11581>>,
    <<30428,16784>>, <<475,28934>>, <<39122,8380>>, <<61397,4138>>, <<29105,34185>>, <<1718,46367>>, <<40895,58533>>, <<59576,54323>>,
    <<30727,51618>>, <<3840,63796>>, <<38409,43150>>, <<57614,38936>>, <<32618,3515>>, <<2157,15661>>, <<37220,27799>>, <<58979,23553>>,
    <<27499,20980>>, <<7276,24930>>, <<34149,12504>>, <<62050,78>>, <<27654,38381>>, <<6913,42363>>, <<33288,62657>>, <<62735,50263>>,
    <<26032,55750>>, <<4791,59728>>, <<35774,47338>>, <<64697,34940>>, <<25309,7647>>, <<5594,11593>>, <<36051,31987>>, <<64468,19557>>,
    <<19890,24920>>, <<15029,20942>>, <<41916,116>>, <<54459,12514>>, <<19167,42305>>, <<15832,38359>>, <<42193,50285>>, <<54230,62715>>,
    <<17257,59754>>, <<13422,55804>>, <<44391,34886>>, <<55904,47312>>, <<17412,11635>>, <<13059,7653>>, <<43530,19551>>, <<56589,31945>>,
    <<20485,28988>>, <<9986,16810>>, <<48651,4112>>, <<51468,8326>>, <<22376,46373>>, <<8303,34227>>, <<47462,54281>>, <<52833,58527>>,
    <<24286,63758>>, <<10713,51608>>, <<45264,38946>>, <<51159,43188>>, <<22963,15639>>, <<11956,3457>>, <<47037,23611>>, <<49338,27821>>,
    <<60856,33568>>, <<39615,46006>>, <<950,57868>>, <<29873,53914>>, <<60117,18233>>, <<40402,30639>>, <<1243,9749>>, <<29660,5763>>,
    <<58211,2834>>, <<37988,15236>>, <<3437,27198>>, <<31338,23208>>, <<58382,53003>>, <<37641,65437>>, <<2560,44583>>, <<32007,40625>>,
    <<61455,37700>>, <<34568,41938>>, <<7681,62056>>, <<26886,49918>>, <<63330,22365>>, <<32869,26571>>, <<6508,13937>>, <<28267,1767>>,
    <<65236,7030>>, <<35283,11232>>, <<4314,31322>>, <<26589,19148>>, <<63929,57199>>, <<36542,61433>>, <<6071,48707>>, <<24752,36565>>,
    <<54998,41960>>, <<41425,37758>>, <<14552,49860>>, <<20447,62034>>, <<53691,26609>>, <<42684,22375>>, <<16309,1757>>, <<18610,13899>>,
    <<55309,11226>>, <<44810,6988>>, <<13827,19190>>, <<16644,31328>>, <<57184,61379>>, <<43111,57173>>, <<12654,36591>>, <<18025,48761>>,
    <<52065,45964>>, <<48230,33562>>, <<9583,53920>>, <<21096,57910>>, <<52236,30613>>, <<47883,18179>>, <<8706,5817>>, <<21765,9775>>,
    <<50618,15294>>, <<45757,2856>>, <<11188,23186>>, <<23731,27140>>, <<49879,65447>>, <<46544,53041>>, <<11481,40587>>, <<23518,44573>>,
    <<39780,49840>>, <<60515,61990>>, <<30058,41884>>, <<621,37642>>, <<39945,1705>>, <<60174,13887>>, <<29191,26501>>, <<1280,22291>>,
    <<38335,19074>>, <<58040,31252>>, <<31665,11182>>, <<3254,6968>>, <<37586,36507>>, <<58837,48653>>, <<31964,61367>>, <<3035,57121>>,
    <<34515,53972>>, <<61908,57922>>, <<26845,46072>>, <<8154,33646>>, <<33214,5837>>, <<63161,9819>>, <<28592,30689>>, <<6327,18295>>,
    <<34824,23270>>, <<65295,27248>>, <<26118,15306>>, <<4353,2908>>, <<36709,40703>>, <<63586,44649>>, <<24939,65491>>, <<5740,53061>>,
    <<40970,57976>>, <<55053,53998>>, <<19972,33620>>, <<14595,46018>>, <<42855,9825>>, <<53344,5879>>, <<18793,18253>>, <<15982,30683>>,
    <<44753,27210>>, <<55766,23260>>, <<16607,2918>>, <<14296,15344>>, <<43452,44627>>, <<57019,40645>>, <<18354,53119>>, <<12469,65513>>,
    <<48573,61980>>, <<51898,49802>>, <<21427,37680>>, <<9396,41894>>, <<47824,13829>>, <<52695,1683>>, <<21726,22313>>, <<9177,26559>>,
    <<45926,31278>>, <<50273,19128>>, <<23912,6914>>, <<10863,11156>>, <<46091,48695>>, <<49932,36513>>, <<23045,57115>>, <<11522,61325>>>>

----------------------------------------------------------------------------
(* Unsigned arithmetic *)

\* x ^ y and x | y of two hexadecimal digits, tabulated
RECURSIVE Bits4(_, _, _)
Bits4(x, y, k) ==
    IF k = 0 THEN <<0, 0>>
    ELSE LET r == Bits4(x \div 2, y \div 2, k - 1)
         IN  <<(((x % 2) + (y % 2)) % 2) + 2 * r[1],
               (IF (x % 2) + (y % 2) > 0 THEN 1 ELSE 0) + 2 * r[2]>>

XorOr4 == [x \in 0..15 |-> [y \in 0..15 |-> Bits4(x, y, 4)]] @@ <<>>

\* x ^ y of two values below 2^n
RECURSIVE BitXor(_, _, _)
BitXor(x, y, n) ==
    IF n <= 0 THEN 0
    ELSE IF x = 0 THEN y
    ELSE IF y = 0 THEN x
    ELSE XorOr4[x % 16][y % 16][1] + 16 * BitXor(x \div 16, y \div 16, n - 4)

\* x | y of two values below 2^n
RECURSIVE BitOr(_, _, _)
BitOr(x, y, n) ==
    IF n <= 0 THEN 0
    ELSE IF x = 0 THEN y
    ELSE IF y = 0 THEN x
    ELSE XorOr4[x % 16][y % 16][2] + 16 * BitOr(x \div 16, y \div 16, n - 4)

\* zw_u32 values as <<hi, lo>>, each below 2^16
U32Xor(x, y) == <<BitXor(x[1], y[1], 16), BitXor(x[2], y[2], 16)>>
U32Not(x) == <<65535 - x[1], 65535 - x[2]>>
U32Add(x, y) ==
    LET lo == x[2] + y[2]
    IN  <<(x[1] + y[1] + (lo \div 65536)) % 65536, lo % 65536>>
U32Shl(x, k) ==
    IF k >= 16 THEN <<(x[2] * (2 ^ (k - 16))) % 65536, 0>>
    ELSE <<((x[1] * (2 ^ k)) + ((x[2] * (2 ^ k)) \div 65536)) % 65536, (x[2] * (2 ^ k)) % 65536>>
U32Shr(x, k) ==
    IF k >= 16 THEN <<0, x[1] \div (2 ^ (k - 16))>>
    ELSE <<x[1] \div (2 ^ k), (x[2] \div (2 ^ k)) + (x[1] % (2 ^ k)) * (2 ^ (16 - k))>>

Min(x, y) == IF x < y THEN x ELSE y

RECURSIVE SumSeq(_)
SumSeq(s) == IF s = <<>> THEN 0 ELSE Head(s) + SumSeq(Tail(s))

----------------------------------------------------------------------------
(* CRC-32 *)

\* the running crc after the loop has taken the first n bytes of buffer
RECURSIVE crc32_loop(_, _, _)
crc32_loop(buffer, n, crc) ==
    IF n = 0 THEN crc
    ELSE LET c == crc32_loop(buffer, n - 1, crc)
         IN  U32Xor(U32Shr(c, 8), crc_table[BitXor(buffer[n], c[2] % 256, 8) + 1])

zw__crc32(buffer, initial) ==
    U32Not(crc32_loop(buffer, Len(buffer), U32Not(initial)))

----------------------------------------------------------------------------
(* The sink: archive->stream.write, supplied by the caller *)

\* what the sink does at a failing invocation: how much it accepts
SinkModes == {"part", "full"}
\* the error code a failing sink stores in stream.error itself (0: none)
SinkCodes == {0, 5}

NoPlan == [at |-> 0, mode |-> "full", code |-> 0]

\* at |-> k: the k-th sink invocation of the operation fails
SinkPlans ==
    {NoPlan} \cup
    {p \in [at : 1..MaxFailAt, mode : SinkModes, code : SinkCodes] :
        ~(p.mode = "full" /\ p.code = 0)}

\* size_t (*write)(stream, buf, size): accepts a prefix of the buffer, returns
\* its length in .written, may store an error code in .error
SinkFails(stream) == stream.plan.at = stream.calls + 1

SinkAccepts(stream, size) ==
    IF ~SinkFails(stream) \/ stream.plan.mode = "full" THEN size
    ELSE IF stream.plan.mode = "part" THEN size - 1
    ELSE 0

stream_write(stream, chunk) ==
    [stream EXCEPT
        !.calls = @ + 1,
        !.written = SinkAccepts(stream, chunk.size),
        !.error = IF SinkFails(stream) /\ stream.plan.code # 0
                  THEN stream.plan.code ELSE @,
        !.sink = Append(@, [kind |-> chunk.kind, size |-> chunk.size,
                            written |-> SinkAccepts(stream, chunk.size),
                            data |-> chunk.data])]

\* g_wlog: one entry per call of zw__write_to_stream made by the current
\* operation; g_wret: the value the last call returned
WLog(a, size, invoked, written, sink_error, ret, after) ==
    [a EXCEPT !.g_wret = ret,
              !.g_wlog = Append(@, [size |-> size, error_before |-> a.stream.error,
                                    invoked |-> invoked, written |-> written,
                                    sink_error |-> sink_error, ret |-> ret,
                                    error_after |-> after])]

\* if write failed and no explicit error code was set, use a default one
DefaultError(s, size) == IF s.written # size /\ s.error = 0 THEN 1 ELSE s.error

\* s: the stream as stream.write left it
WriteThrough_Returned(a, chunk, counted, s) ==
    [WLog(a, chunk.size, TRUE, s.written, s.error, s.written = chunk.size,
          DefaultError(s, chunk.size))
        EXCEPT !.stream = [s EXCEPT !.error = DefaultError(s, chunk.size)],
               !.offset = @ + (IF counted = "written" THEN s.written ELSE chunk.size)]

\* the call when the sink is reached: stream.write, offset, the default error
WriteThrough(a, chunk, counted) ==
    WriteThrough_Returned(a, chunk, counted, stream_write(a.stream, chunk))

zw__write_to_stream_nocheck(a, chunk) ==
    IF chunk.size = 0 THEN WLog(a, 0, FALSE, 0, a.stream.error, TRUE, a.stream.error)
    ELSE WriteThrough(a, chunk, "written")

zw__write_to_stream_adds_size(a, chunk) ==
    IF chunk.size = 0 THEN WLog(a, 0, FALSE, 0, a.stream.error, TRUE, a.stream.error)
    ELSE IF a.stream.error # 0
    THEN WLog(a, chunk.size, FALSE, 0, a.stream.error, FALSE, a.stream.error)
    ELSE WriteThrough(a, chunk, "size")

zw__write_to_stream(a, chunk) ==
    IF chunk.size = 0 THEN WLog(a, 0, FALSE, 0, a.stream.error, TRUE, a.stream.error)
    ELSE IF a.stream.error # 0
    THEN WLog(a, chunk.size, FALSE, 0, a.stream.error, FALSE, a.stream.error)
    ELSE WriteThrough(a, chunk, "written")

----------------------------------------------------------------------------
(* Bit writer *)

\* the output buffer handed to the sink without counting it
zw__flush_compressed_bytes_uncounted(a) ==
    IF Len(a.out) > 0
    THEN [zw__write_to_stream(a, [kind |-> "body", size |-> Len(a.out), data |-> a.out])
            EXCEPT !.out = <<>>]
    ELSE a

zw__flush_compressed_bytes(a) ==
    IF Len(a.out) > 0
    THEN [zw__write_to_stream([a EXCEPT !.current_file.compressed_size = @ + Len(a.out)],
                              [kind |-> "body", size |-> Len(a.out), data |-> a.out])
            EXCEPT !.out = <<>>]
    ELSE a

\* the output buffer never handed over when it is full
FlushIfOutFull_never(a) == a

\* if (archive->out_cursor == archive->out_total) zw__flush_compressed_bytes(archive);
FlushIfOutFull(a) ==
    IF Len(a.out) = a.out_total THEN zw__flush_compressed_bytes(a) ELSE a

\* a.out holds out[0 .. out_cursor-1]: out_cursor is Len(a.out)
\* g_bits_ok: every byte was stored inside out[], and every zw__flush_bits
\* left the cursor inside out[] and no bit in bitbuf at or above bitcount
RECURSIVE zw__flush_bits(_)
zw__flush_bits(a) ==
    IF a.bitcount >= 8
    THEN zw__flush_bits([FlushIfOutFull([a EXCEPT !.out = Append(@, a.bitbuf % 256),
                                                  !.g_bits_ok = @ /\ Len(a.out) < a.out_total])
                            EXCEPT !.bitbuf = @ \div 256, !.bitcount = @ - 8])
    ELSE [a EXCEPT !.g_bits_ok = @ /\ a.bitbuf < 2 ^ a.bitcount /\ Len(a.out) < a.out_total]

RECURSIVE zw__zlib_bitrev_loop(_, _, _)
zw__zlib_bitrev_loop(res, code, codebits) ==
    IF codebits = 0 THEN res
    ELSE zw__zlib_bitrev_loop(res * 2 + (code % 2), code \div 2, codebits - 1)

zw__zlib_bitrev(code, codebits) == zw__zlib_bitrev_loop(0, code, codebits)

\* g_bits_ok: the code and the bits already held fit the accumulator
zw__zlib_add(a, code, codebits) ==
    zw__flush_bits([a EXCEPT !.bitbuf = BitOr(@, code * (2 ^ a.bitcount), 32),
                             !.bitcount = @ + codebits,
                             !.g_bits_ok = @ /\ a.bitcount + codebits <= bitbuf_width])

\* zw__zlib_add applied to each <<code, codebits>> of codes in turn
RECURSIVE zw__zlib_add_all(_, _)
zw__zlib_add_all(a, codes) ==
    IF codes = <<>> THEN a
    ELSE zw__zlib_add_all(zw__zlib_add(a, Head(codes)[1], Head(codes)[2]), Tail(codes))

\* the Huffman macros, as the <<code, codebits>> they hand to zw__zlib_add
zw__zlib_huffa(b, c) == <<zw__zlib_bitrev(b, c), c>>
zw__zlib_huff1(n) == zw__zlib_huffa(48 + n, 8)
zw__zlib_huff2(n) == zw__zlib_huffa(400 + n - 144, 9)
zw__zlib_huff3(n) == zw__zlib_huffa(0 + n - 256, 7)
zw__zlib_huff4(n) == zw__zlib_huffa(192 + n - 280, 8)
zw__zlib_huff(n) ==
    IF n <= 143 THEN zw__zlib_huff1(n)
    ELSE IF n <= 255 THEN zw__zlib_huff2(n)
    ELSE IF n <= 279 THEN zw__zlib_huff3(n)
    ELSE zw__zlib_huff4(n)
zw__zlib_huffb(n) ==
    IF n <= 143 THEN zw__zlib_huff1(n) ELSE zw__zlib_huff2(n)

----------------------------------------------------------------------------
(* Match finder *)

\* the byte at window + p
WindowAt(a, p) == a.window[p + 1]
\* data = window + 32768: the byte data[i]
DataAt(a, i) == a.window[InTotal + i + 1]

\* for (; i < limit; ++i) if (a[i] != b[i]) break;  return i;
\* the first place from i where the bytes differ, limit if there is none
countm_loop(a, pa, pb, i, limit) ==
    IF \E k \in i..(limit - 1) : WindowAt(a, pa + k) # WindowAt(a, pb + k)
    THEN CHOOSE k \in i..(limit - 1) :
            /\ WindowAt(a, pa + k) # WindowAt(a, pb + k)
            /\ \A m \in i..(k - 1) : WindowAt(a, pa + m) = WindowAt(a, pb + m)
    ELSE limit

\* zw__zlib_countm(window + pa, window + pb, limit)
zw__zlib_countm(a, pa, pb, limit) ==
    countm_loop(a, pa, pb, 0, IF limit > max_match THEN max_match ELSE limit)

\* h ^= h << k;  h += h >> k;
HashXorShl(h, k) == U32Xor(h, U32Shl(h, k))
HashAddShr(h, k) == U32Add(h, U32Shr(h, k))

\* the 32-bit hash of three bytes
zw__zhash(d0, d1, d2) ==
    HashAddShr(HashXorShl(HashAddShr(HashXorShl(HashAddShr(HashXorShl(
        <<d2, d1 * 256 + d0>>, 3), 5), 4), 17), 25), 6)

\* zw__zhash(data + i) & (zw__hash_size - 1), tabulated over the byte values
HashSlot ==
    [d \in ByteValues \X ByteValues \X ByteValues |->
        zw__zhash(d[1], d[2], d[3])[2] % zw__hash_size] @@ <<>>

HashAt(a, i) == HashSlot[<<DataAt(a, i), DataAt(a, i + 1), DataAt(a, i + 2)>>]

NoLoc == -1

\* the best match among all the entries, those outside the window too
RECURSIVE BestMatch_any(_, _, _, _, _, _)
BestMatch_any(a, hlist, j, i, data_len, bb) ==
    IF j > Len(hlist) THEN bb
    ELSE BestMatch_any(a, hlist, j + 1, i, data_len,
            IF zw__zlib_countm(a, hlist[j], InTotal + i, data_len - i) >= bb.best
            THEN [best |-> zw__zlib_countm(a, hlist[j], InTotal + i, data_len - i),
                  bestloc |-> hlist[j]]
            ELSE bb)

\* for (j = 0; j < n; ++j) if (hlist[j] > i) {...}: the best match for
\* data + i among the entries of hlist, as [best, bestloc]
RECURSIVE BestMatch(_, _, _, _, _, _)
BestMatch(a, hlist, j, i, data_len, bb) ==
    IF j > Len(hlist) THEN bb
    ELSE IF hlist[j] > i  \* if entry lies within window
    THEN LET d == zw__zlib_countm(a, hlist[j], InTotal + i, data_len - i)
         IN  BestMatch(a, hlist, j + 1, i, data_len,
                       IF d >= bb.best THEN [best |-> d, bestloc |-> hlist[j]] ELSE bb)
    ELSE BestMatch(a, hlist, j + 1, i, data_len, bb)

\* a next match that is as long counted as better
LazyBetter_In_or_equal(a, hlist, i, data_len, best) ==
    \E j \in 1..Len(hlist) :
        /\ hlist[j] > i + 1
        /\ zw__zlib_countm(a, hlist[j], InTotal + i + 1, data_len - i - 1) >= best

LazyBetter_In(a, hlist, i, data_len, best) ==
    \E j \in 1..Len(hlist) :
        /\ hlist[j] > i + 1
        /\ zw__zlib_countm(a, hlist[j], InTotal + i + 1, data_len - i - 1) > best

\* "lazy matching": some entry of the slot of data + i + 1 gives a longer match
LazyBetter(a, i, data_len, best) ==
    LazyBetter_In(a, a.hash_table[HashAt(a, i + 1)], i, data_len, best)

\* no entry ever deleted
TrimChain_never(a, hlist) == hlist

\* when hash table entry is too long, delete half the entries
TrimChain(a, hlist) ==
    IF Len(hlist) = 2 * a.quality
    THEN SubSeq(hlist, a.quality + 1, 2 * a.quality)
    ELSE hlist

\* for (j=0; v > table[j+1]-1; ++j);
RECURSIVE code_index(_, _, _)
code_index(table, v, j) ==
    IF v > table[j + 2] - 1 THEN code_index(table, v, j + 1) ELSE j

\* the length code of a match and its extra bits
LengthCodes(best, j) ==
    <<zw__zlib_huff(j + 257)>> \o
    (IF lengtheb[j + 1] # 0 THEN << <<best - lengthc[j + 1], lengtheb[j + 1]>> >>
     ELSE <<>>)

\* a distance code whose extra bits are the low bits of the distance itself
DistCodes_unbiased(d, j) ==
    << <<zw__zlib_bitrev(j, 5), 5>> >> \o
    (IF disteb[j + 1] # 0 THEN << <<d % (2 ^ disteb[j + 1]), disteb[j + 1]>> >>
     ELSE <<>>)

\* the distance code of a match and its extra bits
DistCodes(d, j) ==
    << <<zw__zlib_bitrev(j, 5), 5>> >> \o
    (IF disteb[j + 1] # 0 THEN << <<d - distc[j + 1], disteb[j + 1]>> >>
     ELSE <<>>)

\* a symbol is <<"lit", byte>>, <<"match", length, distance back>> or <<"eob">>
SymCodes(sym) ==
    IF sym[1] = "lit" THEN <<zw__zlib_huffb(sym[2])>>
    ELSE IF sym[1] = "eob" THEN <<zw__zlib_huff(256)>>
    ELSE LengthCodes(sym[2], code_index(lengthc, sym[2], 0)) \o
         DistCodes(sym[3], code_index(distc, sym[3], 0))

\* g_syms: the literals, matches and end-of-block symbols emitted since the
\* last zw_begin_file
Emit(a, sym) ==
    zw__zlib_add_all(
        [a EXCEPT !.g_syms = Append(@, sym),
                  !.g_assert_ok = @ /\ (sym[1] = "match" =>
                                            sym[3] <= InTotal - 1 /\ sym[2] <= max_match)],
        SymCodes(sym))

\* for (; i < data_len; ++i) zw__zlib_huffb(data[i]);
RECURSIVE FinalBytes(_, _, _)
FinalBytes(a, i, data_len) ==
    IF i < data_len THEN FinalBytes(Emit(a, <<"lit", DataAt(a, i)>>), i + 1, data_len)
    ELSE a

RECURSIVE MatchLoop(_, _, _)

\* zw_u16 e = zw__zlib_countm(...) for each entry of the slot of data + i + 1
\* that lies within the window, -1 for the others
LazyLengths(a, i, data_len) ==
    [j \in 1..Len(a.hash_table[HashAt(a, i + 1)]) |->
        IF a.hash_table[HashAt(a, i + 1)][j] > i + 1
        THEN zw__zlib_countm(a, a.hash_table[HashAt(a, i + 1)][j],
                             InTotal + i + 1, data_len - i - 1)
        ELSE -1]

\* g_visits: what the last entry of the log gets when the symbol is chosen
MatchLoop_Emit(a, i, data_len, sym) ==
    MatchLoop(Emit([a EXCEPT !.g_visits[Len(a.g_visits)].sym = sym,
                             !.g_visits[Len(a.g_visits)].lazy =
                                    LazyLengths(a, i, data_len)],
                   sym),
              i + (IF sym[1] = "match" THEN sym[2] ELSE 1), data_len)

MatchLoop_Choose_far(a, i, data_len, bb) ==
    MatchLoop_Emit(a, i, data_len,
        IF bb.bestloc # NoLoc /\ ~LazyBetter(a, i, data_len, bb.best)
        THEN <<"match", bb.best, InTotal + i - bb.bestloc + 1>>
        ELSE <<"lit", DataAt(a, i)>>)

\* bb: the best match among the entries the slot had before data + i was added
MatchLoop_Choose(a, i, data_len, bb) ==
    MatchLoop_Emit(a, i, data_len,
        IF bb.bestloc # NoLoc /\ ~LazyBetter(a, i, data_len, bb.best)
        THEN <<"match", bb.best, InTotal + i - bb.bestloc>>
        ELSE <<"lit", DataAt(a, i)>>)

\* g_visits: one entry per position the loop visits during the operation
MatchLoop_Visit(a, i, data_len, h, bb) ==
    MatchLoop_Choose(
        [a EXCEPT !.hash_table[h] = Append(TrimChain(a, @), i + InTotal),
                  !.g_visits = Append(@, [i |-> i, data_len |-> data_len, h |-> h,
                                          byte |-> DataAt(a, i),
                                          quality |-> a.quality,
                                          before |-> a.hash_table[h],
                                          after |-> Append(TrimChain(a, a.hash_table[h]),
                                                           i + InTotal),
                                          best |-> bb.best, bestloc |-> bb.bestloc,
                                          lazy |-> <<>>, sym |-> <<>>])],
        i, data_len, bb)

MatchLoop_At(a, i, data_len, h) ==
    MatchLoop_Visit(a, i, data_len, h,
        BestMatch(a, a.hash_table[h], 1, i, data_len, [best |-> 3, bestloc |-> NoLoc]))

\* while (i < data_len-3) {...}
MatchLoop(a, i, data_len) ==
    IF i < data_len - 3 THEN MatchLoop_At(a, i, data_len, HashAt(a, i))
    ELSE FinalBytes(a, i, data_len)

\* the entries that point too far back removed, the others left as they are
SlideChain_unshifted(hlist, in_cursor) == SelectSeq(hlist, LAMBDA e : e >= in_cursor)

\* remove hash table entries that point too far back
RECURSIVE SlideChain(_, _)
SlideChain(hlist, in_cursor) ==
    IF hlist = <<>> THEN <<>>
    ELSE IF Head(hlist) >= in_cursor
    THEN <<Head(hlist) - in_cursor>> \o SlideChain(Tail(hlist), in_cursor)
    ELSE SlideChain(Tail(hlist), in_cursor)

HashSlide(a) ==
    [a EXCEPT !.hash_table = [h \in DOMAIN @ |-> SlideChain(@[h], a.in_cursor)]]

\* ZW_MEMMOVE(archive->window, archive->window + archive->in_cursor, 32768)
WindowSlide(a) ==
    [a EXCEPT !.window = [p \in DOMAIN @ |->
                            IF p <= InTotal THEN @[p + a.in_cursor] ELSE @[p]]]

DataBytes(a, data_len) == [k \in 1..data_len |-> DataAt(a, k - 1)]

CrcUpdate_restart(a, data_len) ==
    [a EXCEPT !.current_file.uncompressed_size = @ + data_len,
              !.current_file.crc = zw__crc32(DataBytes(a, data_len), <<0, 0>>)]

CrcUpdate(a, data_len) ==
    [a EXCEPT !.current_file.uncompressed_size = @ + data_len,
              !.current_file.crc = zw__crc32(DataBytes(a, data_len), @)]

\* g_slides: the hash table and the window before (m) and after (s) each
\* slide of the operation
FlushInput_Slid(m, s) ==
    [CrcUpdate(s, m.in_cursor)
        EXCEPT !.in_cursor = 0,
               !.g_slides = Append(@, [in_cursor |-> m.in_cursor,
                                       hash_before |-> m.hash_table,
                                       window_before |-> m.window,
                                       hash_after |-> s.hash_table,
                                       window_after |-> s.window])]

\* slide window and remove hash table entries that point too far back
FlushInput_Slide(m) == FlushInput_Slid(m, WindowSlide(HashSlide(m)))

zw__flush_input(a) ==
    IF a.in_cursor = 0 THEN a
    ELSE FlushInput_Slide(MatchLoop(a, 0, a.in_cursor))

----------------------------------------------------------------------------
(* Time and date (MS-DOS format) *)

\* the seconds not halved
zw__zip_encode_time_noshift(hour, minute, second) ==
    LET h1 == IF hour > 23 THEN 23 ELSE hour
        h2 == IF minute > 59 THEN 59 ELSE h1
        s1 == IF second > 59 THEN 59 ELSE second
    IN  BitOr(BitOr(s1, minute * 32, 32), h2 * 2048, 32) % 65536

zw__zip_encode_time(hour, minute, second) ==
    LET h1 == IF hour > 23 THEN 23 ELSE hour
        h2 == IF minute > 59 THEN 59 ELSE h1   \* the source assigns hour here
        s1 == IF second > 59 THEN 59 ELSE second
    IN  BitOr(BitOr(s1 \div 2, minute * 32, 32), h2 * 2048, 32) % 65536

zw__zip_encode_date(year, month, day) ==
    LET y1 == IF year >= 1980 THEN year - 1980 ELSE 0
        y2 == IF y1 > 127 THEN 127 ELSE y1
        m1 == IF month > 12 THEN 12 ELSE month
        d1 == IF day > 31 THEN 31 ELSE day
    IN  BitOr(BitOr(d1, m1 * 32, 32), y2 * 512, 32) % 65536

\* what localtime() gives at zw_create_ex
Clocks == {[year |-> 2024, month |-> 6, day |-> 15,
            hour |-> 13, minute |-> 45, second |-> 32]}

----------------------------------------------------------------------------
(* Archive functionality *)

\* ~(zw_u32)0
sentinel32 == <<65535, 65535>>

\* a NULL file_path; any other path is the sequence of its characters
NullPath == <<-1>>
Paths == {NullPath, <<>>, <<97>>, <<98, 98>>}

\* n bytes repeating the pattern p
RECURSIVE Periodic(_, _)
Periodic(p, n) ==
    IF n = 0 THEN <<>> ELSE Append(Periodic(p, n - 1), p[((n - 1) % Len(p)) + 1])

\* the buffers offered to zw_write: short ones, and periodic runs that fill
\* the input batch once and twice
WriteInputs ==
    {<<>>, <<65>>, <<200>>, <<65, 200>>} \cup
    {Periodic(p, n) : p \in {<<65>>, <<65, 200>>}, n \in {InTotal, 2 * InTotal + 1}}

create_archive(clock) ==
    [ bitbuf |-> 0, bitcount |-> 0, quality |-> Quality,
      out |-> <<>>, out_total |-> OutTotal,
      window |-> [p \in 1..(2 * InTotal) |-> 0],
      in_cursor |-> 0, in_total |-> InTotal,
      hash_table |-> [h \in 0..(zw__hash_size - 1) |-> <<>>],
      stream |-> [error |-> 0, sink |-> <<>>, closed |-> 0,
                  calls |-> 0, written |-> 0, plan |-> NoPlan],
      offset |-> 0,
      current_file |-> [start_offset |-> 0, compressed_size |-> 0,
                        uncompressed_size |-> 0, crc |-> <<0, 0>>,
                        name_length |-> 0, name |-> <<>>, name_sbm |-> 0],
      time |-> zw__zip_encode_time(clock.hour, clock.minute, clock.second),
      date |-> zw__zip_encode_date(clock.year, clock.month, clock.day),
      central_dir |-> <<>>, num_files |-> 0,
      g_ret |-> TRUE, g_wret |-> TRUE, g_wlog |-> <<>>, g_syms |-> <<>>,
      g_data |-> <<>>, g_done |-> <<>>, g_created |-> <<>>, g_assert_ok |-> TRUE, g_freed |-> FALSE,
      g_clock |-> clock, g_in_peak |-> 0, g_bits_ok |-> TRUE,
      g_visits |-> <<>>, g_slides |-> <<>> ]

Ret(a, v) == [a EXCEPT !.g_ret = v]

\* the central directory is kept as the pieces appended to it
zw__append_to_central_dir(a, piece) ==
    IF piece.size = 0 THEN [a EXCEPT !.g_wret = TRUE]
    ELSE [a EXCEPT !.central_dir = Append(@, piece), !.g_wret = TRUE]

\* zw__sbcount(archive->central_dir)
central_dir_count(a) == SumSeq([k \in 1..Len(a.central_dir) |-> a.central_dir[k].size])

\* pad with 0 bits to byte boundary
RECURSIVE PadBits(_)
PadBits(a) == IF a.bitcount # 0 THEN PadBits(zw__zlib_add(a, 0, 1)) ELSE a

EndFile_AppendEntry(a) ==
    LET central_header ==
            [kind |-> "central_header", size |-> sizeof_central_dir_file_header,
             data |-> [spec_version |-> 45, required_version |-> 45,
                       flags |-> 8, compression_method |-> 8,
                       file_time |-> a.time, file_date |-> a.date,
                       crc |-> a.current_file.crc,
                       compressed_size |-> sentinel32,
                       uncompressed_size |-> sentinel32,
                       file_name_length |-> a.current_file.name_length,
                       extra_field_length |-> sizeof_info64,
                       local_header_relative_offset |-> sentinel32]]
        name == [kind |-> "name", size |-> central_header.data.file_name_length,
                 data |-> SubSeq(a.current_file.name, 1,
                                 central_header.data.file_name_length)]
        info64 ==
            [kind |-> "info64", size |-> sizeof_info64,
             data |-> [id |-> 1, length |-> sizeof_info64 - 4,
                       compressed_size |-> a.current_file.compressed_size,
                       uncompressed_size |-> a.current_file.uncompressed_size,
                       local_header_relative_offset |-> a.current_file.start_offset]]
        a1 == zw__append_to_central_dir(a, central_header)
        a2 == zw__append_to_central_dir(a1, name)
        a3 == zw__append_to_central_dir(a2, info64)
    IN  \* g_done: what was written to each member that has been ended
        [a3 EXCEPT !.current_file.name_length = 0,
                   !.g_done = Append(@, [name |-> name.data, data |-> a.g_data,
                                         syms |-> a.g_syms,
                                         crc |-> a.current_file.crc])]

\* the end-of-block symbol
EndFile_EndOfBlock(a) == Emit(a, <<"eob">>)

\* the entry appended whether or not the data descriptor was written
EndFile_Entry_unchecked(a) == Ret(EndFile_AppendEntry(a), a.g_wret)

\* add entry to central directory, once the data descriptor is written
EndFile_Entry(a) ==
    IF ~a.g_wret THEN Ret(a, FALSE)
    ELSE Ret(EndFile_AppendEntry(a), TRUE)

EndFile_Descriptor(a) ==
    EndFile_Entry(zw__write_to_stream(a,
        [kind |-> "data_desc", size |-> sizeof_data_descriptor,
         data |-> [crc |-> a.current_file.crc,
                   compressed_size |-> sentinel32,
                   uncompressed_size |-> sentinel32]]))

zw__zip_end_file(a) ==
    IF a.current_file.name_length = 0 THEN Ret(a, FALSE)
    ELSE EndFile_Descriptor(
            zw__flush_compressed_bytes(PadBits(EndFile_EndOfBlock(zw__flush_input(a)))))

\* the name buffer: name_buf[64] while name_sbm = 0, else a stretchy buffer
\* of capacity name_sbm
StoreName(a, file_path, name_length) ==
    LET name_capacity == IF a.current_file.name_sbm = 0 THEN name_buf_size
                         ELSE a.current_file.name_sbm
        increment == IF name_length + 1 < name_min_capacity THEN name_min_capacity
                     ELSE name_length + 1
        grown == IF a.current_file.name_sbm = 0 THEN increment + 1
                 ELSE 2 * a.current_file.name_sbm + increment
    IN  [a EXCEPT !.current_file.name = SubSeq(file_path, 1, name_length),
                  !.current_file.name_sbm =
                        IF name_length >= name_capacity THEN grown ELSE @]

\* the chains of the previous member kept
ResetChains_never(a) == a

\* reset lengths of hash table chains
ResetChains(a) ==
    IF a.num_files # 0
    THEN [a EXCEPT !.hash_table = [h \in DOMAIN @ |-> <<>>]]
    ELSE a

BeginFile_Start(a, file_path, name_length, offset) ==
    LET a1 == ResetChains(StoreName(a, file_path, name_length))
        a2 == [a1 EXCEPT !.in_cursor = 0,
                         !.out = <<>>,
                         !.current_file.name_length = name_length % 65536,
                         !.current_file.compressed_size = 0,
                         !.current_file.uncompressed_size = 0,
                         !.current_file.crc = <<0, 0>>,
                         !.current_file.start_offset = offset,
                         !.num_files = @ + 1,
                         !.g_syms = <<>>,
                         !.g_data = <<>>]
    IN  \* begin raw deflate block: BFINAL = 1, BTYPE = 01 (fixed Huffman)
        zw__zlib_add_all(a2, << <<1, 1>>, <<1, 2>> >>)

LocalHeader(a, name_length) ==
    [kind |-> "local_header", size |-> sizeof_local_file_header,
     data |-> [version |-> 45, flags |-> 8, compression_method |-> 8,
               file_time |-> a.time, file_date |-> a.date,
               crc |-> <<0, 0>>, compressed_size |-> <<0, 0>>,
               uncompressed_size |-> <<0, 0>>,
               file_name_length |-> name_length % 65536,
               extra_field_length |-> 0]]

\* strlen(file_path), not clamped
NameLength_unclamped(file_path) == Len(file_path)

\* if (name_length > 0xfffe) name_length = 0xfffe;
NameLength(file_path) == Min(Len(file_path), max_name_length)

NameChunk(file_path) ==
    [kind |-> "name", size |-> NameLength(file_path),
     data |-> SubSeq(file_path, 1, NameLength(file_path))]

\* the member's fields set from the offset after the header and name
BeginFile_Started_late(a, file_path, offset) ==
    IF ~a.g_wret THEN Ret(a, FALSE)
    ELSE Ret(BeginFile_Start(a, file_path, NameLength(file_path), a.offset), TRUE)

\* after the name is handed to the sink
BeginFile_Started(a, file_path, offset) ==
    IF ~a.g_wret THEN Ret(a, FALSE)
    ELSE Ret(BeginFile_Start(a, file_path, NameLength(file_path), offset), TRUE)

\* after the local header is handed to the sink
BeginFile_Name(a, file_path, offset) ==
    IF ~a.g_wret THEN Ret(a, FALSE)
    ELSE BeginFile_Started(zw__write_to_stream(a, NameChunk(file_path)),
                           file_path, offset)

BeginFile_Header_unchecked(a, file_path) ==
    IF file_path = NullPath \/ Len(file_path) = 0 THEN Ret(a, FALSE)
    ELSE Ret(BeginFile_Start(
                zw__write_to_stream(
                    zw__write_to_stream(a, LocalHeader(a, NameLength(file_path))),
                    NameChunk(file_path)),
                file_path, NameLength(file_path), a.offset), TRUE)

\* only a NULL path rejected
BeginFile_Header_accepts_empty(a, file_path) ==
    IF file_path = NullPath THEN Ret(a, FALSE)
    ELSE BeginFile_Name(zw__write_to_stream(a, LocalHeader(a, NameLength(file_path))),
                        file_path, a.offset)

\* after the previous member is ended
BeginFile_Header(a, file_path) ==
    IF file_path = NullPath \/ Len(file_path) = 0 THEN Ret(a, FALSE)
    ELSE BeginFile_Name(zw__write_to_stream(a, LocalHeader(a, NameLength(file_path))),
                        file_path, a.offset)

\* the new member started without ending the one that is active
zw_begin_file_no_end(a, file_path) == BeginFile_Header(a, file_path)

zw_begin_file(a, file_path) == BeginFile_Header(zw__zip_end_file(a), file_path)

\* ZW_MEMMOVE(archive->window + 32768 + archive->in_cursor, data, batch)
\* g_in_peak: the largest value in_cursor has had during the operation
CopyIn(a, data, batch) ==
    [a EXCEPT !.window = [p \in DOMAIN @ |->
            IF p > InTotal + a.in_cursor /\ p <= InTotal + a.in_cursor + batch
            THEN data[p - InTotal - a.in_cursor] ELSE @[p]],
              !.in_cursor = @ + batch,
              !.g_in_peak = IF a.in_cursor + batch > @ THEN a.in_cursor + batch ELSE @]

\* if (archive->in_cursor == archive->in_total) zw__flush_input(archive);
FlushIfInFull(a) == IF a.in_cursor = a.in_total THEN zw__flush_input(a) ELSE a

RECURSIVE WriteLoop(_, _)

\* one batch copied, the window not flushed and the rest of the data dropped
WriteLoop_unflushed(a, data) ==
    CopyIn(a, data, Min(Len(data), a.in_total - a.in_cursor))

\* while (data_len > 0) {...}
WriteLoop(a, data) ==
    IF Len(data) > 0
    THEN WriteLoop(FlushIfInFull(CopyIn(a, data, Min(Len(data), a.in_total - a.in_cursor))),
                   SubSeq(data, Min(Len(data), a.in_total - a.in_cursor) + 1, Len(data)))
    ELSE a

\* g_data: the bytes accepted by zw_write since the last zw_begin_file
zw_write(a, data) ==
    IF a.num_files = 0 THEN Ret(a, FALSE)
    ELSE Ret([WriteLoop(a, data) EXCEPT !.g_data = @ \o data], TRUE)

EocdRecords(a, offset, central_dir_size) ==
    [eocd64 |->
        [kind |-> "eocd64", size |-> sizeof_end_of_central_dir_64,
         data |-> [end_of_central_dir_64_size |-> sizeof_end_of_central_dir_64 - 12,
                   writer_version |-> 45, required_version |-> 45,
                   current_disk |-> 0, central_dir_disk |-> 0,
                   num_central_dir_recs_disk |-> a.num_files,
                   num_central_dir_recs_total |-> a.num_files,
                   central_dir_size |-> central_dir_size,
                   central_dir_offset |-> offset]],
     eocdloc64 |->
        [kind |-> "eocdloc64", size |-> sizeof_end_of_central_dir_locator_64,
         data |-> [end_of_central_dir_64_disk |-> 0,
                   end_of_central_dir_64_offset |-> offset + central_dir_size,
                   num_total_disks |-> 1]],
     eocd |->
        [kind |-> "eocd", size |-> sizeof_end_of_central_dir,
         data |-> [current_disk |-> sentinel16, central_dir_disk |-> sentinel16,
                   num_central_dir_recs_disk |-> sentinel16,
                   num_central_dir_recs_total |-> sentinel16,
                   central_dir_size |-> sentinel32,
                   central_dir_offset |-> sentinel32,
                   comment_length |-> 0]]]

Finish_Close_ignores_error(a, res) ==
    Ret([a EXCEPT !.stream.closed = @ + 1, !.g_freed = TRUE], res)

\* stream.close, the final error test and ZW_FREE(archive)
Finish_Close(a, res) ==
    LET a1 == [a EXCEPT !.stream.closed = @ + 1]
    IN  Ret([a1 EXCEPT !.g_freed = TRUE], res /\ a1.stream.error = 0)

\* after the classic end-of-central-directory write (if it was made)
Finish_Return(a, res) ==
    IF res /\ ~a.g_wret THEN Ret(a, FALSE)
    ELSE Finish_Close(a, res)

\* after the locator write: res is the result so far
Finish_Eocd(a, res, rec) ==
    Finish_Return(IF res /\ a.g_wret THEN zw__write_to_stream(a, rec.eocd) ELSE a,
                  res /\ a.g_wret)

Finish_Locator(a, res, rec) ==
    Finish_Eocd(zw__write_to_stream(a, rec.eocdloc64), res /\ a.g_wret, rec)

\* zw__sbfree(archive->central_dir)
Finish_FreeCentralDir(a) == [a EXCEPT !.central_dir = <<>>]

\* after the central directory write
Finish_Eocd64(a, rec) ==
    Finish_Locator(IF a.g_wret
                   THEN zw__write_to_stream(Finish_FreeCentralDir(a), rec.eocd64)
                   ELSE Finish_FreeCentralDir(a),
                   a.g_wret, rec)

Finish_CentralDir(a) ==
    Finish_Eocd64(zw__write_to_stream(a, [kind |-> "central_dir",
                                          size |-> central_dir_count(a),
                                          data |-> a.central_dir]),
                  EocdRecords(a, a.offset, central_dir_count(a)))

\* zw__sbfree of every hash chain and of the name buffer
Finish_FreeBuffers(a) ==
    [a EXCEPT !.hash_table = [h \in DOMAIN @ |-> <<>>],
              !.current_file.name = IF a.current_file.name_sbm = 0 THEN @ ELSE <<>>]

zw_finish(a) == Finish_CentralDir(Finish_FreeBuffers(zw__zip_end_file(a)))

----------------------------------------------------------------------------
(* The session: one action per public operation *)

\* the sink's plan for the operation that starts
BeginOp(a, plan) ==
    [a EXCEPT !.stream.plan = plan, !.stream.calls = 0, !.g_wlog = <<>>,
              !.g_in_peak = a.in_cursor, !.g_visits = <<>>, !.g_slides = <<>>]

EndOp(a) == [a EXCEPT !.stream.plan = NoPlan, !.stream.calls = 0]

\* the plans that differ during an operation that makes n sink invocations
PlansFor(n) == {p \in SinkPlans : p.at <= n}

Finished == call.op = "zw_finish"

\* the value of the variables of a program that a specification does not run
NotRun == <<>>

\* what the checks need of the session as it was when the operation was called
Before(a) ==
    [active |-> a.current_file.name_length # 0,
     error |-> a.stream.error,
     num_files |-> a.num_files,
     offset |-> a.offset,
     sink_len |-> Len(a.stream.sink)]

Init ==
    /\ \E clock \in Clocks : archive = create_archive(clock)
    /\ call = [op |-> "zw_create_ex", valid |-> TRUE, before |-> Before(archive)]
    /\ result = TRUE
    /\ nops = 0
    /\ cmv = NotRun

\* valid: the arguments were not ones the operation rejects (a NULL or empty path)
Do(op, valid, after) ==
    /\ archive' = EndOp(after)
    /\ call' = [op |-> op, valid |-> valid, before |-> Before(archive)]
    /\ result' = after.g_ret
    /\ nops' = nops + 1
    /\ cmv' = cmv

\* g_created: the paths of the zw_begin_file calls that returned zw_true
Created(a, file_path) ==
    IF a.g_ret THEN [a EXCEPT !.g_created = Append(@, file_path)] ELSE a

BeginFile ==
    /\ ~Finished /\ nops < MaxOps
    /\ \E file_path \in Paths :
         \E plan \in PlansFor(zw_begin_file(BeginOp(archive, NoPlan), file_path).stream.calls) :
            Do("zw_begin_file", file_path # NullPath /\ file_path # <<>>,
               Created(zw_begin_file(BeginOp(archive, plan), file_path), file_path))

Write ==
    /\ ~Finished /\ nops < MaxOps
    /\ \E data \in WriteInputs :
         \E plan \in PlansFor(zw_write(BeginOp(archive, NoPlan), data).stream.calls) :
            Do("zw_write", TRUE, zw_write(BeginOp(archive, plan), data))

Finish ==
    /\ ~Finished
    /\ \E plan \in PlansFor(zw_finish(BeginOp(archive, NoPlan)).stream.calls) :
            Do("zw_finish", TRUE, zw_finish(BeginOp(archive, plan)))

Next == BeginFile \/ Write \/ Finish

Spec == Init /\ [][Next]_vars

----------------------------------------------------------------------------
(* Sessions whose sink takes every buffer entire and sets no error *)

BeginFileSteady ==
    /\ ~Finished /\ nops < MaxSteadyOps
    /\ \E file_path \in Paths :
            Do("zw_begin_file", file_path # NullPath /\ file_path # <<>>,
               Created(zw_begin_file(BeginOp(archive, NoPlan), file_path), file_path))

WriteSteady ==
    /\ ~Finished /\ nops < MaxSteadyOps
    /\ \E data \in WriteInputs :
            Do("zw_write", TRUE, zw_write(BeginOp(archive, NoPlan), data))

FinishSteady ==
    /\ ~Finished
    /\ Do("zw_finish", TRUE, zw_finish(BeginOp(archive, NoPlan)))

NextSteady == BeginFileSteady \/ WriteSteady \/ FinishSteady

SpecSteady == Init /\ [][NextSteady]_vars

----------------------------------------------------------------------------
(* Sessions offered paths up to and beyond the longest name a record holds *)

\* strlen of the paths offered: around the inline buffer's 64 bytes, around
\* the least capacity 260 of a grown buffer, and around the clamp 0xfffe
NameLengths == {1, 63, 64, 259, 260, 600, 65534, 65535, 65600}

LongPaths == {[i \in 1..n |-> 97 + (i % 2)] : n \in NameLengths}

BeginFileNamed ==
    /\ ~Finished /\ nops < MaxNameOps
    /\ \E file_path \in LongPaths :
            Do("zw_begin_file", TRUE,
               Created(zw_begin_file(BeginOp(archive, NoPlan), file_path), file_path))

FinishNamed ==
    /\ ~Finished
    /\ Do("zw_finish", TRUE, zw_finish(BeginOp(archive, NoPlan)))

NextNames == BeginFileNamed \/ FinishNamed

SpecNames == Init /\ [][NextNames]_vars

----------------------------------------------------------------------------
(* Sessions created at different readings of the clock *)

\* what localtime() may give: tm_year + 1900, tm_mon + 1, tm_mday, tm_hour,
\* tm_min, tm_sec
ClockSamples ==
    [year : {1970, 1980, 2024, 2107, 2108, 2300}, month : {1, 6, 12},
     day : {1, 15, 31}, hour : {0, 13, 23}, minute : {0, 45, 59},
     second : {0, 1, 32, 59}]

InitClock ==
    /\ \E clock \in ClockSamples : archive = create_archive(clock)
    /\ call = [op |-> "zw_create_ex", valid |-> TRUE, before |-> Before(archive)]
    /\ result = TRUE
    /\ nops = 0
    /\ cmv = NotRun

BeginFileClock ==
    /\ ~Finished /\ nops < MaxClockOps
    /\ \E file_path \in {<<97>>} :
            Do("zw_begin_file", TRUE,
               Created(zw_begin_file(BeginOp(archive, NoPlan), file_path), file_path))

FinishClock ==
    /\ ~Finished
    /\ Do("zw_finish", TRUE, zw_finish(BeginOp(archive, NoPlan)))

NextClock == BeginFileClock \/ FinishClock

SpecClock == InitClock /\ [][NextClock]_vars

----------------------------------------------------------------------------
(* Sessions that exercise the match finder: writes of a whole window with
   every mix of the two byte values in the first four bytes, two that end
   with the other byte, two shorter writes, chains short enough to fill *)

MatchInputs ==
    {[i \in 1..InTotal |-> IF i \in S THEN 200 ELSE 65] :
        S \in SUBSET (1..4) \cup {{InTotal}, {1, InTotal}}} \cup
    {[i \in 1..4 |-> IF i \in S THEN 200 ELSE 65] : S \in {{}, {1, 3}}}

InitMatch ==
    /\ \E clock \in Clocks : archive = [create_archive(clock) EXCEPT !.quality = MatchQuality]
    /\ call = [op |-> "zw_create_ex", valid |-> TRUE, before |-> Before(archive)]
    /\ result = TRUE
    /\ nops = 0
    /\ cmv = NotRun

BeginFileMatch ==
    /\ ~Finished /\ nops < MaxMatchOps
    /\ Do("zw_begin_file", TRUE,
          Created(zw_begin_file(BeginOp(archive, NoPlan), <<97>>), <<97>>))

WriteMatch ==
    /\ ~Finished /\ nops < MaxMatchOps
    /\ \E data \in MatchInputs :
            Do("zw_write", TRUE, zw_write(BeginOp(archive, NoPlan), data))

FinishMatch ==
    /\ ~Finished
    /\ Do("zw_finish", TRUE, zw_finish(BeginOp(archive, NoPlan)))

NextMatch == BeginFileMatch \/ WriteMatch \/ FinishMatch

SpecMatch == InitMatch /\ [][NextMatch]_vars

----------------------------------------------------------------------------
(* The match emitter and the time encoder applied to chosen arguments: every
   length with the nearest distance, the distances at the ends of each code's
   range and between them with three lengths, times inside and outside the
   ranges of a clock *)

InitPure ==
    /\ \E clock \in Clocks : archive = create_archive(clock)
    /\ call = [op |-> "zw_create_ex", valid |-> TRUE, before |-> Before(archive)]
    /\ result = TRUE
    /\ nops = 0
    /\ cmv = NotRun

\* the codes of one match added to the empty bit accumulator
EmitMatch ==
    /\ nops = 0
    /\ \E best \in 3..max_match :
        \E d \in IF best \in {3, 100, max_match}
                 THEN {distc[j] : j \in 1..30} \cup {distc[j + 1] - 1 : j \in 1..30}
                      \cup {(distc[j] + distc[j + 1]) \div 2 : j \in 1..30}
                 ELSE {1} :
            /\ archive' = EndOp(Emit(BeginOp(archive, NoPlan), <<"match", best, d>>))
            /\ call' = [op |-> "emit", valid |-> TRUE, before |-> Before(archive),
                        best |-> best, d |-> d]
    /\ result' = TRUE
    /\ nops' = 1
    /\ cmv' = cmv

EncodeTime ==
    /\ nops = 0
    /\ \E hour \in {0, 12, 23, 24, 31, 255} :
        \E minute \in {0, 30, 59, 60, 63, 64, 255} :
            \E second \in {0, 1, 58, 59, 60, 61, 255} :
                /\ call' = [op |-> "zw__zip_encode_time", valid |-> TRUE,
                            before |-> Before(archive),
                            hour |-> hour, minute |-> minute, second |-> second]
                /\ result' = zw__zip_encode_time(hour, minute, second)
    /\ archive' = archive
    /\ nops' = 1
    /\ cmv' = cmv

NextPure == EmitMatch \/ EncodeTime

SpecPure == InitPure /\ [][NextPure]_vars

----------------------------------------------------------------------------
(* cpuid_multiver.h: function multiversioning *)

\* a caps_storage value (unsigned int) is the set of the bits that are set in it
Word == 0..31
Complement(mask) == Word \ mask

\* CMV_CAPABILITY_LIST: x(name, fn, reg, regbit)
CMV_CAPABILITY_LIST ==
    << [name |-> "mmx", fn |-> 1, reg |-> 4, regbit |-> 23],
       [name |-> "sse", fn |-> 1, reg |-> 4, regbit |-> 25],
       [name |-> "sse2", fn |-> 1, reg |-> 4, regbit |-> 26],
       [name |-> "sse3", fn |-> 1, reg |-> 3, regbit |-> 0],
       [name |-> "ssse3", fn |-> 1, reg |-> 3, regbit |-> 9],
       [name |-> "sse41", fn |-> 1, reg |-> 3, regbit |-> 19],
       [name |-> "sse42", fn |-> 1, reg |-> 3, regbit |-> 20],
       [name |-> "bmi1", fn |-> 7, reg |-> 2, regbit |-> 3],
       [name |-> "bmi2", fn |-> 7, reg |-> 2, regbit |-> 8],
       [name |-> "aes", fn |-> 1, reg |-> 3, regbit |-> 25],
       [name |-> "f16c", fn |-> 1, reg |-> 3, regbit |-> 29],
       [name |-> "avx", fn |-> 1, reg |-> 3, regbit |-> 28],
       [name |-> "avx2", fn |-> 7, reg |-> 2, regbit |-> 5],
       [name |-> "pclmulqdq", fn |-> 1, reg |-> 3, regbit |-> 1],
       [name |-> "rdrand", fn |-> 1, reg |-> 3, regbit |-> 30],
       [name |-> "rdseed", fn |-> 7, reg |-> 2, regbit |-> 18] >>

\* namespace capability_index: the place of a name in the list, from 0
capability_index(name) ==
    (CHOOSE k \in 1..Len(CMV_CAPABILITY_LIST) : CMV_CAPABILITY_LIST[k].name = name) - 1

\* enum caps: generic = 0, name = 1 << capability_index::name; and names OR-ed
generic == {}
caps(names) == {capability_index(name) : name \in names}

\* the registers eax, ebx, ecx, edx all zero
ZeroRegisters == <<{}, {}, {}, {}>>

\* detect_system_caps: system is what the cpuid instruction answers
detect_system_caps(system) ==
    LET f1 == IF system.max_func >= 1 THEN system.leaf1 ELSE ZeroRegisters
        f7 == IF system.max_func >= 7 THEN system.leaf7 ELSE ZeroRegisters
    IN  {k - 1 : k \in {j \in 1..Len(CMV_CAPABILITY_LIST) :
            CMV_CAPABILITY_LIST[j].regbit \in
                (IF CMV_CAPABILITY_LIST[j].fn = 1 THEN f1 ELSE f7)[CMV_CAPABILITY_LIST[j].reg]}}

\* static caps cached, before its initialisation
NotDetected == [initialised |-> FALSE, value |-> {}]

\* the processors the program may run on
Systems ==
    { [max_func |-> 0, leaf1 |-> <<{}, {}, {0, 9}, {23, 25, 26}>>, leaf7 |-> ZeroRegisters],
      [max_func |-> 1, leaf1 |-> <<{}, {}, {}, {23, 25, 26}>>, leaf7 |-> ZeroRegisters],
      [max_func |-> 1, leaf1 |-> <<{}, {}, {0, 9}, {23, 25, 26}>>,
       leaf7 |-> <<{}, {3, 5, 8}, {}, {}>>],
      [max_func |-> 7, leaf1 |-> <<{3}, {5}, {0, 9, 19, 20, 28}, {23, 25, 26}>>,
       leaf7 |-> <<{}, {3, 5, 8}, {}, {}>>],
      [max_func |-> 7, leaf1 |-> <<{}, {}, {0, 9}, {25, 26}>>,
       leaf7 |-> <<{}, {5}, {}, {}>>] }

\* struct version: a function and its requirement mask.  The arrays of
\* versions a program may define; the last one lacks the generic entry
VersionArrays ==
    { << [function |-> "ssse3", requirements |-> caps({"ssse3", "sse2", "sse"})],
         [function |-> "generic", requirements |-> generic] >>,
      << [function |-> "avx2", requirements |-> caps({"avx2", "avx"})],
         [function |-> "sse41", requirements |-> caps({"sse41", "mmx"})],
         [function |-> "ssse3", requirements |-> caps({"ssse3", "sse2"})],
         [function |-> "generic", requirements |-> generic] >>,
      << [function |-> "generic", requirements |-> generic] >>,
      << [function |-> "first", requirements |-> generic],
         [function |-> "sse", requirements |-> caps({"sse"})],
         [function |-> "generic", requirements |-> generic] >>,
      << [function |-> "bit20", requirements |-> {20}],
         [function |-> "sse2", requirements |-> caps({"sse2"})],
         [function |-> "generic", requirements |-> generic] >>,
      << [function |-> "avx", requirements |-> caps({"avx"})] >> }

\* what the memory after a version array may hold
GarbageEntries ==
    { [function |-> "garbage", requirements |-> generic],
      [function |-> "garbage", requirements |-> {31}] }

\* the entry candidate points to: past the end of the array, whatever is there
EntriesAt(m, candidate) ==
    IF candidate <= Len(m.versions) THEN {m.versions[candidate]} ELSE GarbageEntries

\* the threads that call through the function pointer, and what they pass
Callers == {1, 2}
Arguments == {10, 20}

\* the function pointer's initial value: &cmv::lazy<...>::resolve<&func, versions>
CMV_LAZY_RESOLVE == "lazy::resolve"

\* what a version returns for its arguments
Apply(function, args) == <<function, args>>

NoResult == <<>>

\* the program after static initialisation, on one processor, with one array
cmv_program(system, versions) ==
    [ system |-> system, versions |-> versions,
      cached |-> NotDetected,
      pointer |-> CMV_LAZY_RESOLVE,
      procs |-> [c \in Callers |->
                    [pc |-> "idle", calls |-> 0, args |-> 0, ret |-> NoResult,
                     not_present |-> {}, candidate |-> 0, found |-> "",
                     g_entered |-> FALSE, g_later |-> FALSE]],
      g_entries |-> 0, g_completed |-> 0, g_max_read |-> 0 ]

\* a call through the pointer: to the resolver, or straight to a version
\* g_later: a call through the pointer had returned when this one was made
call_through(m, c, args) ==
    IF m.pointer = CMV_LAZY_RESOLVE
    THEN [m EXCEPT !.procs[c].pc = "get_caps",
                   !.procs[c].calls = @ + 1,
                   !.procs[c].args = args,
                   !.procs[c].ret = NoResult,
                   !.procs[c].g_entered = TRUE,
                   !.procs[c].g_later = m.g_completed > 0,
                   !.g_entries = @ + 1]
    ELSE [m EXCEPT !.procs[c].calls = @ + 1,
                   !.procs[c].args = args,
                   !.procs[c].ret = Apply(m.pointer, args),
                   !.procs[c].g_entered = FALSE,
                   !.procs[c].g_later = m.g_completed > 0,
                   !.g_completed = @ + 1]

\* get_cached_system_caps
get_cached_system_caps(m) ==
    [m EXCEPT !.cached = IF @.initialised THEN @
                         ELSE [initialised |-> TRUE, value |-> detect_system_caps(m.system)]]

\* caps_storage not_present = ~get_cached_system_caps(); candidate = first_candidate
resolve_begin(m, c) ==
    [get_cached_system_caps(m) EXCEPT
        !.procs[c].not_present = Complement(get_cached_system_caps(m).cached.value),
        !.procs[c].candidate = 1,
        !.procs[c].pc = "loop"]

\* a loop condition that is never true: the first entry is taken
resolve_test_never(m, c, entry) == FALSE

\* candidate->requirements & not_present
resolve_test(m, c, entry) == entry.requirements \cap m.procs[c].not_present # {}

\* one test of the loop: ++candidate, or return candidate->function
resolve_loop(m, c, entry) ==
    IF resolve_test(m, c, entry)
    THEN [m EXCEPT !.procs[c].candidate = @ + 1,
                   !.procs[c].pc = IF m.procs[c].candidate >= Len(m.versions) + MaxOverread
                                   THEN "fault" ELSE "loop",
                   !.g_max_read = IF m.procs[c].candidate > @ THEN m.procs[c].candidate ELSE @]
    ELSE [m EXCEPT !.procs[c].found = entry.function,
                   !.procs[c].pc = "store",
                   !.g_max_read = IF m.procs[c].candidate > @ THEN m.procs[c].candidate ELSE @]

\* a resolver that forwards the call and leaves the pointer as it is
lazy_store_none(m, c) == [m EXCEPT !.procs[c].pc = "forward"]

\* *Destination = cmv::resolve(Versions);
lazy_store(m, c) ==
    [m EXCEPT !.pointer = m.procs[c].found, !.procs[c].pc = "forward"]

\* return (*Destination)(static_cast<Arguments&&>(args)...);
lazy_forward(m, c) ==
    [m EXCEPT !.procs[c].ret = Apply(m.pointer, m.procs[c].args),
              !.procs[c].pc = "idle",
              !.g_completed = @ + 1]

InitCmv ==
    /\ \E system \in Systems : \E versions \in VersionArrays :
            cmv = cmv_program(system, versions)
    /\ archive = NotRun
    /\ call = NotRun
    /\ result = TRUE
    /\ nops = 0

CallThrough(c) ==
    /\ cmv.procs[c].pc = "idle" /\ cmv.procs[c].calls < MaxCalls
    /\ \E args \in Arguments : cmv' = call_through(cmv, c, args)
    /\ UNCHANGED <<archive, call, result, nops>>

ResolveBegin(c) ==
    /\ cmv.procs[c].pc = "get_caps"
    /\ cmv' = resolve_begin(cmv, c)
    /\ UNCHANGED <<archive, call, result, nops>>

ResolveLoop(c) ==
    /\ cmv.procs[c].pc = "loop"
    /\ \E entry \in EntriesAt(cmv, cmv.procs[c].candidate) :
            cmv' = resolve_loop(cmv, c, entry)
    /\ UNCHANGED <<archive, call, result, nops>>

LazyStore(c) ==
    /\ cmv.procs[c].pc = "store"
    /\ cmv' = lazy_store(cmv, c)
    /\ UNCHANGED <<archive, call, result, nops>>

LazyForward(c) ==
    /\ cmv.procs[c].pc = "forward"
    /\ cmv' = lazy_forward(cmv, c)
    /\ UNCHANGED <<archive, call, result, nops>>

\* the steps a caller takes once it is in the resolver
Resolving(c) == ResolveBegin(c) \/ ResolveLoop(c) \/ LazyStore(c) \/ LazyForward(c)

NextCmv == \E c \in Callers : CallThrough(c) \/ Resolving(c)

\* a thread that is in the resolver keeps running
SpecCmv == InitCmv /\ [][NextCmv]_vars /\ \A c \in Callers : WF_vars(Resolving(c))

----------------------------------------------------------------------------
(* What the checks read off a state *)

\* the sink invocations so far, in order
Sink == archive.stream.sink

\* a member is active
Active == archive.current_file.name_length # 0

\* the invocations that handed at least one byte to the sink
Handed == SelectSeq(Sink, LAMBDA c : c.written > 0)

\* the record kinds that may follow a record of kind k in the output
KindsAfter(k) ==
    IF k = "local_header" THEN {"name"}
    ELSE IF k = "name" THEN {"body", "data_desc"}
    ELSE IF k = "body" THEN {"body", "data_desc"}
    ELSE IF k = "data_desc" THEN {"local_header", "central_dir"}
    ELSE IF k = "central_dir" THEN {"eocd64"}
    ELSE IF k = "eocd64" THEN {"eocdloc64"}
    ELSE IF k = "eocdloc64" THEN {"eocd"}
    ELSE {}

\* every field of the session the program holds, the sink's log included
Session(a) ==
    [bitbuf |-> a.bitbuf, bitcount |-> a.bitcount, out |-> a.out,
     window |-> a.window, in_cursor |-> a.in_cursor, hash_table |-> a.hash_table,
     error |-> a.stream.error, sink |-> a.stream.sink, closed |-> a.stream.closed,
     offset |-> a.offset, current_file |-> a.current_file,
     central_dir |-> a.central_dir, num_files |-> a.num_files]

\* the sum of the counts returned by the sink
SinkWritten == SumSeq([k \in 1..Len(Sink) |-> Sink[k].written])

\* the entries of the log of internal writes obey the latch
WLogSticky(log) ==
    \A k \in 1..Len(log) :
        /\ (log[k].error_before # 0 /\ log[k].size > 0) =>
                (~log[k].invoked /\ ~log[k].ret)
        /\ log[k].error_before # 0 => log[k].error_after = log[k].error_before
        /\ (log[k].invoked /\ log[k].written # log[k].size /\ log[k].sink_error = 0) =>
                log[k].error_after = 1
        /\ log[k].error_before = (IF k = 1 THEN call.before.error
                                  ELSE log[k - 1].error_after)
        /\ k = Len(log) => archive.stream.error = log[k].error_after

\* an inflater's copy of length bytes from distance back in what it has produced
RECURSIVE CopyBack(_, _, _)
CopyBack(out, length, distance) ==
    IF length = 0 THEN out
    ELSE CopyBack(Append(out, out[Len(out) - distance + 1]), length - 1, distance)

\* what an inflater produces from a sequence of symbols, up to the end-of-block
\* symbol; <<-1>> when a back-reference reaches before the member's first byte
RECURSIVE Replay(_, _)
Replay(syms, out) ==
    IF syms = <<>> \/ Head(syms)[1] = "eob" THEN out
    ELSE IF Head(syms)[1] = "lit" THEN Replay(Tail(syms), Append(out, Head(syms)[2]))
    ELSE IF Head(syms)[3] < 1 \/ Head(syms)[3] > Len(out) THEN <<-1>>
    ELSE Replay(Tail(syms), CopyBack(out, Head(syms)[2], Head(syms)[3]))

\* the central directory: what was handed to the sink, else what is buffered
CentralDirPieces ==
    IF \E k \in 1..Len(Sink) : Sink[k].kind = "central_dir"
    THEN (CHOOSE c \in {Sink[k] : k \in 1..Len(Sink)} : c.kind = "central_dir").data
    ELSE archive.central_dir

PiecesOfKind(pieces, kind) == SelectSeq(pieces, LAMBDA c : c.kind = kind)

DataOf(pieces) == [k \in 1..Len(pieces) |-> pieces[k].data]

\* the names of the members that have been ended
EndedNames ==
    IF Active THEN SubSeq(archive.g_created, 1, Len(archive.g_created) - 1)
    ELSE archive.g_created

\* CRC-32 (reflected polynomial EDB88320) computed bit by bit
RECURSIVE Crc32Bits(_, _)
Crc32Bits(crc, k) ==
    IF k = 0 THEN crc
    ELSE Crc32Bits(IF crc[2] % 2 = 1 THEN U32Xor(U32Shr(crc, 1), <<60856, 33568>>)
                   ELSE U32Shr(crc, 1), k - 1)

\* the CRC-32 of each single byte value, tabulated
Crc32RefByte == [n \in 0..255 |-> Crc32Bits(<<0, n>>, 8)] @@ <<>>

RECURSIVE Crc32Bytes(_, _)
Crc32Bytes(data, crc) ==
    IF data = <<>> THEN crc
    ELSE Crc32Bytes(Tail(data),
            U32Xor(U32Shr(crc, 8), Crc32RefByte[BitXor(crc[2] % 256, Head(data), 8)]))

Crc32Ref(data) == U32Not(Crc32Bytes(data, <<65535, 65535>>))

\* zw__crc32 of two buffers in turn is zw__crc32 of their concatenation
Crc32Chains ==
    \A buf1, buf2 \in {b \in WriteInputs : Len(b) <= InTotal} :
        \A prior \in {<<0, 0>>, <<65535, 65535>>, <<22680, 36115>>} :
            zw__crc32(buf1 \o buf2, prior) = zw__crc32(buf2, zw__crc32(buf1, prior))

\* the data descriptors handed to the sink entire
DataDescriptors ==
    SelectSeq(Sink, LAMBDA c : c.kind = "data_desc" /\ c.written = c.size)

\* the places in the sink's log of the invocations of one record kind
IndexesOfKind(kind) ==
    SelectSeq([k \in 1..Len(Sink) |-> k], LAMBDA k : Sink[k].kind = kind)

Headers == IndexesOfKind("local_header")
Descs == IndexesOfKind("data_desc")

\* the sink offset at which the i-th invocation starts: the bytes taken before it
SinkOffsetAt(i) == SumSeq([k \in 1..(i - 1) |-> Sink[k].written])

\* the body invocations of the k-th member: those between its local header and
\* its data descriptor
MemberBody(k) ==
    SelectSeq(SubSeq(Sink, Headers[k] + 1, Descs[k] - 1), LAMBDA c : c.kind = "body")

MemberBodyBytes(k) ==
    SumSeq([j \in 1..Len(MemberBody(k)) |-> MemberBody(k)[j].written])

\* the name invocation of the k-th member
MemberName(k) == Sink[Headers[k] + 1]

\* every local header in the sink is followed by its name, then body, then its
\* data descriptor, all taken entire
MembersWhole ==
    /\ Len(Headers) = Len(Descs)
    /\ \A k \in 1..Len(Headers) :
            /\ Headers[k] < Descs[k]
            /\ k < Len(Headers) => Descs[k] < Headers[k + 1]
            /\ MemberName(k).kind = "name"

\* the footer records handed to the sink
SinkOfKind(kind) == PiecesOfKind(Sink, kind)

\* the size of the central directory that was written (nothing is handed to
\* the sink for an empty one)
CentralDirWritten ==
    SumSeq([k \in 1..Len(SinkOfKind("central_dir")) |-> SinkOfKind("central_dir")[k].written])

\* the central directory entries, one <<header, name, info64>> per three pieces
CentralDirEntry(k) ==
    [header |-> CentralDirPieces[3 * k - 2], name |-> CentralDirPieces[3 * k - 1],
     info64 |-> CentralDirPieces[3 * k]]

\* the bytes of a sequence of sink invocations, in order
RECURSIVE BytesOf(_)
BytesOf(chunks) ==
    IF chunks = <<>> THEN <<>> ELSE Head(chunks).data \o BytesOf(Tail(chunks))

\* the sink invocations made by the last operation
NewSink == SubSeq(Sink, call.before.sink_len + 1, Len(Sink))

\* the local headers handed to the sink entire
LocalHeaders ==
    SelectSeq(Sink, LAMBDA c : c.kind = "local_header" /\ c.written = c.size)

\* in the last operation, a record of this kind came only after the rest of
\* the active member's body and its data descriptor, taken entire
EndedBefore(kind) ==
    \A i \in 1..Len(NewSink) :
        NewSink[i].kind = kind =>
            \E j \in 1..(i - 1) :
                /\ NewSink[j].kind = "data_desc" /\ NewSink[j].written = NewSink[j].size
                /\ \A m \in 1..(j - 1) : NewSink[m].kind = "body"
                /\ \A m \in (j + 1)..(i - 1) : NewSink[m].kind # "body"

\* the last member ended: its symbols end with the end-of-block symbol, all
\* that was written to it is in them, and its entry is in the central directory
LastEnded ==
    /\ Len(archive.g_done) = Len(DataDescriptors)
    /\ Len(CentralDirPieces) = 3 * Len(DataDescriptors)
    /\ LET last == archive.g_done[Len(archive.g_done)]
       IN  /\ last.syms # <<>>
           /\ last.syms[Len(last.syms)] = <<"eob">>
           /\ Replay(last.syms, <<>>) = last.data
           /\ CentralDirEntry(Len(archive.g_done)).name.data = last.name

\* the session's memory apart from the stream (error latch, sink) and the
\* count of bytes the sink has taken
InMemory(a) ==
    [bitbuf |-> a.bitbuf, bitcount |-> a.bitcount, out |-> a.out,
     window |-> a.window, in_cursor |-> a.in_cursor, hash_table |-> a.hash_table,
     current_file |-> a.current_file, central_dir |-> a.central_dir,
     num_files |-> a.num_files]

\* the capacity of the buffer that holds the active member's name
NameCapacity ==
    IF archive.current_file.name_sbm = 0 THEN name_buf_size
    ELSE archive.current_file.name_sbm

\* the first 65534 characters of a path
Clamped(path) == SubSeq(path, 1, IF Len(path) < 65534 THEN Len(path) ELSE 65534)

\* the MS-DOS time and date of a clock reading, by arithmetic
DosTime(clock) == (clock.second \div 2) + clock.minute * 32 + clock.hour * 2048

DosDate(clock) ==
    clock.day + clock.month * 32
        + ((IF clock.year < 1980 THEN 1980
            ELSE IF clock.year > 2107 THEN 2107 ELSE clock.year) - 1980) * 512

\* the encoders agree with the arithmetic on every time of day and on every
\* date of the years 1975..2112 and of years up to the largest int
EncodersExact ==
    /\ \A hour \in 0..23 : \A minute \in 0..59 : \A second \in 0..59 :
            /\ zw__zip_encode_time(hour, minute, second)
                    = DosTime([hour |-> hour, minute |-> minute, second |-> second])
            /\ zw__zip_encode_time(hour, minute, second) < 65536
    /\ \A year \in (1975..2112) \cup {0, 65535, 65536, 2147483647} :
        \A month \in 1..12 : \A day \in 1..31 :
            /\ zw__zip_encode_date(year, month, day)
                    = DosDate([year |-> year, month |-> month, day |-> day])
            /\ zw__zip_encode_date(year, month, day) < 65536

\* the bits of a code of codebits bits, least significant first
BitsOfCode(code, codebits) == [k \in 1..codebits |-> (code \div (2 ^ (k - 1))) % 2]

\* the bits of a sequence of <<code, codebits>>, in the order they are added
RECURSIVE BitsOfCodes(_)
BitsOfCodes(codes) ==
    IF codes = <<>> THEN <<>>
    ELSE BitsOfCode(Head(codes)[1], Head(codes)[2]) \o BitsOfCodes(Tail(codes))

\* the codes of a sequence of symbols
RECURSIVE CodesOfSyms(_)
CodesOfSyms(syms) ==
    IF syms = <<>> THEN <<>> ELSE SymCodes(Head(syms)) \o CodesOfSyms(Tail(syms))

\* bit n of a bit sequence, 0 past its end
BitAt(bits, n) == IF n <= Len(bits) THEN bits[n] ELSE 0

\* a bit sequence as bytes, the first bit in the lowest place, the last byte
\* filled with zero bits
PackBits(bits) ==
    [k \in 1..((Len(bits) + 7) \div 8) |->
        BitAt(bits, 8 * k - 7) + 2 * BitAt(bits, 8 * k - 6) + 4 * BitAt(bits, 8 * k - 5)
        + 8 * BitAt(bits, 8 * k - 4) + 16 * BitAt(bits, 8 * k - 3)
        + 32 * BitAt(bits, 8 * k - 2) + 64 * BitAt(bits, 8 * k - 1)
        + 128 * BitAt(bits, 8 * k)]

\* the bits BFINAL = 1, BTYPE = 01
BlockPrelude == <<1, 1, 0>>

\* one fixed-Huffman final block holding the symbols, as bytes
OneBlock(syms) == PackBits(BlockPrelude \o BitsOfCodes(CodesOfSyms(syms)))

\* the number of end-of-block symbols among the symbols
EobCount(syms) == Cardinality({k \in 1..Len(syms) : syms[k] = <<"eob">>})

\* the longest code handed to zw__zlib_add: the extra bits of a distance
longest_code == 13

\* the distances at the ends of each distance code's range
EdgeDistances ==
    {distc[j] : j \in 1..(Len(distc) - 1)} \cup {distc[j + 1] - 1 : j \in 1..(Len(distc) - 1)}

\* every code the encoder can add: literals, end of block, lengths 3..258 and
\* the distances 1..32767 at the ends of each code's range
AllCodes ==
    UNION ({ {zw__zlib_huffb(n)} : n \in 0..255 } \cup { {zw__zlib_huff(256)} }
           \cup { {LengthCodes(best, code_index(lengthc, best, 0))[k] :
                        k \in 1..Len(LengthCodes(best, code_index(lengthc, best, 0)))} :
                    best \in 3..max_match }
           \cup { {DistCodes(d, code_index(distc, d, 0))[k] :
                        k \in 1..Len(DistCodes(d, code_index(distc, d, 0)))} :
                    d \in EdgeDistances })

\* every code fits its bit count, none is longer than the longest, one is as long
CodesFit ==
    /\ \A c \in AllCodes : c[2] <= longest_code /\ c[1] < 2 ^ c[2]
    /\ \E c \in AllCodes : c[2] = longest_code

\* the bytes of the active member that zw__flush_input has processed
Flushed == Len(archive.g_data) - archive.in_cursor

\* a hash-table entry e of slot h designates three bytes of the lower half of
\* the window, which are bytes of the active member and hash to h
EntryInMember(h, e) ==
    /\ e >= 0 /\ e + 2 < InTotal
    /\ Flushed - InTotal + e >= 0
    /\ \A n \in 0..2 :
            WindowAt(archive, e + n) = archive.g_data[Flushed - InTotal + e + n + 1]
    /\ HashSlot[<<WindowAt(archive, e), WindowAt(archive, e + 1),
                  WindowAt(archive, e + 2)>>] = h

\* the entries at or above in_cursor, each less in_cursor, in their order
Slid(hlist, in_cursor) ==
    [k \in 1..Len(SelectSeq(hlist, LAMBDA e : e >= in_cursor)) |->
        SelectSeq(hlist, LAMBDA e : e >= in_cursor)[k] - in_cursor]

\* one slide of the log: the entries rewritten or dropped, the window moved
\* down, each surviving entry designating the bytes it designated before
SlideKeeps(sl) ==
    /\ sl.in_cursor >= 1 /\ sl.in_cursor <= InTotal
    /\ \A h \in DOMAIN sl.hash_before :
            /\ \A k \in 1..Len(sl.hash_before[h]) :
                    sl.hash_before[h][k] >= 0 /\ sl.hash_before[h][k] < 2 * InTotal
            /\ sl.hash_after[h] = Slid(sl.hash_before[h], sl.in_cursor)
            /\ \A k \in 1..Len(sl.hash_after[h]) :
                    /\ sl.hash_after[h][k] + 2 < InTotal
                    /\ \A n \in 0..2 :
                            sl.window_after[sl.hash_after[h][k] + n + 1] =
                            sl.window_before[sl.hash_after[h][k] + sl.in_cursor + n + 1]
    /\ \A p \in 1..InTotal : sl.window_after[p] = sl.window_before[p + sl.in_cursor]

\* the number of entries in a hash table
RECURSIVE EntryCount(_, _)
EntryCount(table, h) ==
    IF h \notin DOMAIN table THEN 0 ELSE Len(table[h]) + EntryCount(table, h + 1)

\* a window of one repeated byte, long enough for the longest match, and the
\* same with another byte at place brk
LongRun(brk) == [window |-> [p \in 1..(2 * max_match + 4) |-> IF p = brk THEN 200 ELSE 65]]

\* zw__zlib_countm counts equal bytes up to its limit, to the first byte that
\* differs, and to no more than 258
CountmCapped ==
    \A limit \in {0, 3, max_match - 1, max_match, max_match + 1, 2 * max_match} :
        /\ zw__zlib_countm(LongRun(0), 0, 1, limit) = Min(limit, max_match)
        /\ zw__zlib_countm(LongRun(max_match + 2), 0, 1, limit) = Min(limit, max_match)
        /\ zw__zlib_countm(LongRun(max_match + 1), 0, 1, limit) = Min(limit, max_match - 1)
        /\ zw__zlib_countm(LongRun(101), 0, 1, limit) = Min(limit, 99)

\* the back-references among a sequence of symbols are within the bounds
MatchesInBounds(syms) ==
    \A k \in 1..Len(syms) :
        syms[k][1] = "match" =>
            /\ syms[k][2] >= 3 /\ syms[k][2] <= max_match
            /\ syms[k][3] >= 1 /\ syms[k][3] <= InTotal - 1

\* the longest common prefix that a candidate for the next position gave
\* at a visited position, -1 when there was no candidate within the window
LazyLongest(v) ==
    IF v.lazy = <<>> THEN -1
    ELSE CHOOSE e \in {v.lazy[j] : j \in 1..Len(v.lazy)} :
            \A j \in 1..Len(v.lazy) : v.lazy[j] <= e

\* by how much the loop advances after the symbol it chose at a position
Advance(v) == IF v.sym[1] = "match" THEN v.sym[2] ELSE 1

\* RFC 1951, 3.2.5: the base length and extra bits of the length codes
\* 257..285, the base distance and extra bits of the distance codes 0..29
RfcLengthBase == <<3, 4, 5, 6, 7, 8, 9, 10, 11, 13, 15, 17, 19, 23, 27, 31, 35, 43, 51, 59,
                   67, 83, 99, 115, 131, 163, 195, 227, 258>>
RfcLengthExtra == <<0, 0, 0, 0, 0, 0, 0, 0, 1, 1, 1, 1, 2, 2, 2, 2, 3, 3, 3, 3,
                    4, 4, 4, 4, 5, 5, 5, 5, 0>>
RfcDistBase == <<1, 2, 3, 4, 5, 7, 9, 13, 17, 25, 33, 49, 65, 97, 129, 193, 257, 385, 513,
                 769, 1025, 1537, 2049, 3073, 4097, 6145, 8193, 12289, 16385, 24577>>
RfcDistExtra == <<0, 0, 0, 0, 1, 1, 2, 2, 3, 3, 4, 4, 5, 5, 6, 6, 7, 7, 8, 8,
                  9, 9, 10, 10, 11, 11, 12, 12, 13, 13>>

\* n bits from place from on as a number, the first bit the most significant
RECURSIVE MsbValue(_, _, _)
MsbValue(bits, from, n) ==
    IF n = 0 THEN 0 ELSE 2 * MsbValue(bits, from, n - 1) + BitAt(bits, from + n - 1)

\* n bits from place from on as a number, the first bit the least significant
RECURSIVE LsbValue(_, _, _)
LsbValue(bits, from, n) ==
    IF n = 0 THEN 0 ELSE BitAt(bits, from) + 2 * LsbValue(bits, from + 1, n - 1)

\* the bits of a sequence of bytes, the lowest bit of each byte first
BitsOfBytes(bytes) ==
    [n \in 1..(8 * Len(bytes)) |-> (bytes[(n - 1) \div 8 + 1] \div (2 ^ ((n - 1) % 8))) % 2]

\* all the bits the encoder has produced: those handed to the sink, those in
\* the output buffer, those in the accumulator
EmittedBits ==
    BitsOfBytes(BytesOf(SinkOfKind("body")) \o archive.out)
        \o BitsOfCode(archive.bitbuf, archive.bitcount)

\* the length symbol at the head of a bit sequence under the fixed Huffman
\* code, and the bits it takes: 7 bits for 256..279, 8 bits for 280..287
FixedLengthSymbol(bits) ==
    IF MsbValue(bits, 1, 7) <= 23 THEN [sym |-> 256 + MsbValue(bits, 1, 7), used |-> 7]
    ELSE IF MsbValue(bits, 1, 8) \in 192..199
    THEN [sym |-> 280 + MsbValue(bits, 1, 8) - 192, used |-> 8]
    ELSE [sym |-> -1, used |-> 0]

\* what an inflater reads off the bits of one match: <<length, distance, number
\* of bits read>>, <<-1, -1, -1>> when they are not a match
InflateMatch_At(bits, lj, used) ==
    IF MsbValue(bits, used + RfcLengthExtra[lj + 1] + 1, 5) \notin 0..29 THEN <<-1, -1, -1>>
    ELSE <<RfcLengthBase[lj + 1] + LsbValue(bits, used + 1, RfcLengthExtra[lj + 1]),
           RfcDistBase[MsbValue(bits, used + RfcLengthExtra[lj + 1] + 1, 5) + 1]
             + LsbValue(bits, used + RfcLengthExtra[lj + 1] + 6,
                        RfcDistExtra[MsbValue(bits, used + RfcLengthExtra[lj + 1] + 1, 5) + 1]),
           used + RfcLengthExtra[lj + 1] + 5
             + RfcDistExtra[MsbValue(bits, used + RfcLengthExtra[lj + 1] + 1, 5) + 1]>>

InflateMatch(bits) ==
    IF FixedLengthSymbol(bits).sym \notin 257..285 THEN <<-1, -1, -1>>
    ELSE InflateMatch_At(bits, FixedLengthSymbol(bits).sym - 257, FixedLengthSymbol(bits).used)

\* the index j selected in a table for v is the only one with
\* table[j] <= v <= table[j+1]-1, and v - table[j] fits the extra bits of j
IndexExact_At(table, extra, v, selected) ==
    /\ selected \in 0..(Len(extra) - 1)
    /\ \A j \in 0..(Len(extra) - 1) :
            (table[j + 1] <= v /\ v <= table[j + 2] - 1) <=> (j = selected)
    /\ v - table[selected + 1] >= 0
    /\ v - table[selected + 1] < 2 ^ extra[selected + 1]

IndexExact(table, extra, v) == IndexExact_At(table, extra, v, code_index(table, v, 0))

\* the same for every distance that has the code of d
IndexExactAround(d) ==
    \A v \in distc[code_index(distc, d, 0) + 1]..(distc[code_index(distc, d, 0) + 2] - 1) :
        IndexExact(distc, disteb, v)

\* the codes of a length: symbol 257 + j, then the extra bits of j if it has any
LengthCodesExact(best) ==
    LengthCodes(best, code_index(lengthc, best, 0)) =
        <<zw__zlib_huff(257 + code_index(lengthc, best, 0))>> \o
        (IF lengtheb[code_index(lengthc, best, 0) + 1] = 0 THEN <<>>
         ELSE << <<best - lengthc[code_index(lengthc, best, 0) + 1],
                   lengtheb[code_index(lengthc, best, 0) + 1]>> >>)

\* the same for every length 3..258, the codes of the distances cover
\* 1..32767, and the tables are those of RFC 1951
TablesExact ==
    /\ \A best \in 3..max_match : IndexExact(lengthc, lengtheb, best) /\ LengthCodesExact(best)
    /\ distc[1] = 1 /\ distc[31] - 1 = 32767 /\ Len(distc) = 31
    /\ SubSeq(lengthc, 1, 29) = RfcLengthBase /\ lengtheb = RfcLengthExtra
    /\ SubSeq(distc, 1, 30) = RfcDistBase /\ disteb = RfcDistExtra

\* the session that begins each of the members done[k..], writes its data in
\* one call, and goes on, with a sink that takes everything
RECURSIVE OneWriteEach(_, _, _)
OneWriteEach(a, done, k) ==
    IF k > Len(done) THEN a
    ELSE OneWriteEach(
            EndOp(zw_write(BeginOp(EndOp(zw_begin_file(BeginOp(a, NoPlan), done[k].name)),
                                   NoPlan),
                           done[k].data)),
            done, k + 1)

\* what the sink has been handed when such a session is finished
OneWriteEachSink(clock, done) ==
    zw_finish(BeginOp(OneWriteEach(create_archive(clock), done, 1), NoPlan)).stream.sink

\* the zw_write calls of the session so far have split some member's data, or
\* have been given an empty buffer
SplitWrites ==
    \E k \in 1..Len(archive.g_done) : Len(archive.g_done[k].data) > InTotal

\* the number of bytes an inflater has produced after the first n symbols
ProducedBy(syms, n) ==
    SumSeq([k \in 1..n |-> IF syms[k][1] = "lit" THEN 1
                           ELSE IF syms[k][1] = "match" THEN syms[k][2] ELSE 0])

\* every match reaches back no further than the bytes the symbols before it
\* stand for
MatchesWithinMember(syms) ==
    \A n \in 1..Len(syms) : syms[n][1] = "match" => syms[n][3] <= ProducedBy(syms, n - 1)

HasMatch(syms) == \E n \in 1..Len(syms) : syms[n][1] = "match"

----------------------------------------------------------------------------
(* Properties *)

\* C1: the records reach the sink in the order of the finished archive: for
\* each member its local header, its name, its body and its data descriptor,
\* then the central directory, the ZIP64 end record, the locator and the
\* classic end record; no body bytes reach the sink outside a member's span.
C1_SinkOrder ==
    /\ Handed # <<>> => Handed[1].kind \in {"local_header", "eocd64"}
    /\ \A k \in 1..(Len(Handed) - 1) : Handed[k + 1].kind \in KindsAfter(Handed[k].kind)

\* C2: zw_write returns failure whenever no member is active, also after a
\* zw_begin_file call that failed.
C2_WriteNeedsActiveMember ==
    (call.op = "zw_write" /\ ~call.before.active) => result = FALSE

\* C3: once a sink error is latched, zw_write returns failure and changes
\* nothing of the session.
C3_WriteAfterErrorIsNoOp ==
    [][(call'.op = "zw_write" /\ archive.stream.error # 0) =>
            (result' = FALSE /\ Session(archive') = Session(archive))]_vars

\* C4: once a sink error is latched, zw_begin_file returns failure, does not
\* increment num_files, makes no member active and hands nothing to the sink.
C4_BeginAfterErrorFails ==
    (call.op = "zw_begin_file" /\ call.before.error # 0) =>
        /\ result = FALSE
        /\ archive.num_files = call.before.num_files
        /\ Active => call.before.active
        /\ Len(Sink) = call.before.sink_len
        /\ archive.offset = call.before.offset

C4_Witness ==
    /\ call.op = "zw_begin_file" /\ call.valid
    /\ call.before.error # 0 /\ call.before.active

\* C5: in every run of zw_finish the sink's close() is called exactly once
\* and the session is freed, also when the sink fails in a footer record.
C5_FinishClosesAndFrees ==
    Finished => (archive.stream.closed = 1 /\ archive.g_freed)

\* C6: zw_finish returns success exactly when no sink error was latched in
\* the session: no short write, and stream.error zero when it completes.
C6_FinishResult ==
    Finished =>
        (result = TRUE <=>
            (archive.stream.error = 0 /\ \A k \in 1..Len(Sink) : Sink[k].written = Sink[k].size))

C6_Witness ==
    /\ Finished /\ result = FALSE
    /\ call.before.error # 0 /\ archive.stream.closed = 1

\* C7: the stream error is sticky: once non-zero it is never reset, the sink
\* is not invoked again, every later non-empty internal write fails; a short
\* write from a sink that set no code latches the code 1.
C7_ErrorSticky ==
    /\ WLogSticky(archive.g_wlog)
    /\ archive.g_wlog = <<>> => archive.stream.error = call.before.error
    /\ call.before.error # 0 =>
            (archive.stream.error = call.before.error /\ Len(Sink) = call.before.sink_len)

C7_Witness ==
    \E k \in 1..Len(archive.g_wlog) :
        /\ archive.g_wlog[k].size > 0
        /\ archive.g_wlog[k].error_before = 1
        /\ ~archive.g_wlog[k].invoked

\* C8: archive.offset is the sum of the counts the sink returned, the partial
\* count of a short write included.
C8_OffsetIsSinkTotal == archive.offset = SinkWritten

C8_Witness ==
    /\ archive.offset > 0
    /\ \E k \in 1..Len(Sink) : 0 < Sink[k].written /\ Sink[k].written < Sink[k].size

\* C9: replaying the literals and back-references emitted for a member gives
\* the bytes written to it, and while no sink error is latched the member
\* names appear in the output and in the central directory in creation order.
C9_RoundTrip ==
    /\ \A k \in 1..Len(archive.g_done) :
            Replay(archive.g_done[k].syms, <<>>) = archive.g_done[k].data
    /\ archive.stream.error = 0 =>
            /\ Active =>
                    Replay(archive.g_syms, <<>>) \o DataBytes(archive, archive.in_cursor)
                        = archive.g_data
            /\ DataOf(PiecesOfKind(Sink, "name")) = archive.g_created
            /\ DataOf(PiecesOfKind(CentralDirPieces, "name")) = EndedNames
            /\ [k \in 1..Len(archive.g_done) |-> archive.g_done[k].name] = EndedNames

C9_Witness ==
    /\ Finished /\ archive.stream.error = 0
    /\ \E k \in 1..Len(archive.g_done) :
            /\ Len(archive.g_done[k].data) > 2 * InTotal
            /\ \E j \in 1..Len(archive.g_done[k].syms) :
                    /\ archive.g_done[k].syms[j][1] = "match"
                    /\ j > InTotal \div 2

\* C10: the CRC in a member's data descriptor and in its central directory
\* entry is the CRC-32 of all the bytes written to the member, however many
\* times the input buffer was flushed; the running CRC may be chained.
C10_MemberCrc ==
    /\ Len(DataDescriptors) = Len(archive.g_done)
    /\ \A k \in 1..Len(archive.g_done) :
            /\ DataDescriptors[k].data.crc = Crc32Ref(archive.g_done[k].data)
            /\ k <= Len(PiecesOfKind(CentralDirPieces, "central_header")) =>
                    PiecesOfKind(CentralDirPieces, "central_header")[k].data.crc
                        = Crc32Ref(archive.g_done[k].data)
    /\ Crc32Chains
    /\ ~Finished =>
            Len(PiecesOfKind(CentralDirPieces, "central_header")) = Len(archive.g_done)

C10_Witness ==
    /\ Finished
    /\ \E k \in 1..Len(archive.g_done) :
            /\ Len(archive.g_done[k].data) > 2 * InTotal
            /\ archive.g_done[k].crc # <<0, 0>>
            /\ \E c \in {CentralDirPieces[j] : j \in 1..Len(CentralDirPieces)} :
                    c.kind = "central_header" /\ c.data.crc = archive.g_done[k].crc

\* C11: when zw_finish succeeds, the final offset is the sum over the members
\* of 30 + name length + body bytes + 12, plus the central directory size,
\* plus 56 + 20 + 22; the central directory size is the sum over the members
\* of 46 + name length + 28; the ZIP64 end record holds the offset at which
\* the central directory starts and the locator that offset plus its size.
C11_SizeAccounting ==
    (Finished /\ result = TRUE) =>
        /\ MembersWhole
        /\ CentralDirWritten =
                SumSeq([k \in 1..Len(Headers) |->
                    sizeof_central_dir_file_header + MemberName(k).size + sizeof_info64])
        /\ archive.offset =
                SumSeq([k \in 1..Len(Headers) |->
                    sizeof_local_file_header + MemberName(k).size
                        + MemberBodyBytes(k) + sizeof_data_descriptor])
                + CentralDirWritten
                + sizeof_end_of_central_dir_64 + sizeof_end_of_central_dir_locator_64
                + sizeof_end_of_central_dir
        /\ SinkOfKind("eocd64")[1].data.central_dir_offset
                = SinkOffsetAt(IndexesOfKind("eocd64")[1]) - CentralDirWritten
        /\ SinkOfKind("eocd64")[1].data.central_dir_size = CentralDirWritten
        /\ SinkOfKind("eocdloc64")[1].data.end_of_central_dir_64_offset
                = SinkOffsetAt(IndexesOfKind("eocd64")[1])

\* C12: the ZIP64 extra of every central directory entry carries the true
\* sizes: compressed_size is the number of body bytes handed to the sink
\* between the member's name and its data descriptor, uncompressed_size the
\* total length of the writes made to the member; the 32-bit size fields of
\* every data descriptor and central header are 0xFFFFFFFF.
C12_TrueSizes ==
    /\ \A k \in 1..(Len(CentralDirPieces) \div 3) :
            /\ CentralDirEntry(k).info64.kind = "info64"
            /\ CentralDirEntry(k).info64.data.compressed_size = MemberBodyBytes(k)
            /\ CentralDirEntry(k).info64.data.uncompressed_size
                    = Len(archive.g_done[k].data)
            /\ CentralDirEntry(k).header.kind = "central_header"
            /\ CentralDirEntry(k).header.data.compressed_size = sentinel32
            /\ CentralDirEntry(k).header.data.uncompressed_size = sentinel32
    /\ \A k \in 1..Len(Descs) :
            /\ Sink[Descs[k]].data.compressed_size = sentinel32
            /\ Sink[Descs[k]].data.uncompressed_size = sentinel32

\* a member written in three batches whose body reached the sink in several
\* invocations, in a finished archive
C12_Witness ==
    /\ Finished /\ result = TRUE
    /\ \E k \in 1..(Len(CentralDirPieces) \div 3) :
            /\ Len(MemberBody(k)) > 1
            /\ CentralDirEntry(k).info64.data.uncompressed_size > 2 * InTotal
            /\ CentralDirEntry(k).info64.data.compressed_size > OutTotal

\* C13: the local_header_relative_offset in each member's ZIP64 extra is the
\* sink offset at which the member's local header begins, and these offsets
\* are strictly increasing in central directory order.
C13_HeaderOffsets ==
    /\ \A k \in 1..(Len(CentralDirPieces) \div 3) :
            CentralDirEntry(k).info64.data.local_header_relative_offset
                = SinkOffsetAt(Headers[k])
    /\ \A k \in 1..((Len(CentralDirPieces) \div 3) - 1) :
            CentralDirEntry(k).info64.data.local_header_relative_offset
                < CentralDirEntry(k + 1).info64.data.local_header_relative_offset
    /\ Active => archive.current_file.start_offset = SinkOffsetAt(Headers[Len(Headers)])

\* three members in the central directory, the later ones not at offset 0
C13_Witness ==
    /\ Len(CentralDirPieces) \div 3 >= 3
    /\ CentralDirEntry(1).info64.data.local_header_relative_offset = 0
    /\ CentralDirEntry(3).info64.data.local_header_relative_offset
            > 2 * (sizeof_local_file_header + sizeof_data_descriptor)

\* C14: the central directory buffer holds one entry (46-byte header, name,
\* 28-byte ZIP64 extra) per completed member, in creation order, and the
\* record count written twice in the ZIP64 end record is the number of
\* entries of the central directory that was written.
C14_CentralDirEntries ==
    /\ ~Finished => Len(archive.central_dir) = 3 * Len(DataDescriptors)
    /\ Len(CentralDirPieces) % 3 = 0
    /\ \A k \in 1..(Len(CentralDirPieces) \div 3) :
            /\ CentralDirEntry(k).header.kind = "central_header"
            /\ CentralDirEntry(k).header.size = sizeof_central_dir_file_header
            /\ CentralDirEntry(k).name.kind = "name"
            /\ CentralDirEntry(k).name.data = archive.g_created[k]
            /\ CentralDirEntry(k).name.data = MemberName(k).data
            /\ CentralDirEntry(k).info64.kind = "info64"
            /\ CentralDirEntry(k).info64.size = sizeof_info64
    /\ \A j \in 1..Len(SinkOfKind("eocd64")) :
            /\ SinkOfKind("eocd64")[j].data.num_central_dir_recs_disk
                    = Len(CentralDirPieces) \div 3
            /\ SinkOfKind("eocd64")[j].data.num_central_dir_recs_total
                    = Len(CentralDirPieces) \div 3
            /\ CentralDirWritten = central_dir_count([central_dir |-> CentralDirPieces])

\* a finished archive of two members with different names
C14_Witness ==
    /\ Finished /\ SinkOfKind("eocd64") # <<>>
    /\ SinkOfKind("eocd64")[1].data.num_central_dir_recs_total = 2
    /\ CentralDirEntry(1).name.data # CentralDirEntry(2).name.data

\* C15: a member begun and ended with nothing written to it (or only writes
\* of length zero) has a body of exactly two bytes: the three prelude bits,
\* the 7-bit end-of-block code and zero padding; its recorded CRC is 0 and
\* its recorded uncompressed size is 0.
C15_EmptyMember ==
    \A k \in 1..Len(archive.g_done) :
        archive.g_done[k].data = <<>> =>
            /\ BytesOf(MemberBody(k)) = <<3, 0>>
            /\ Sink[Descs[k]].data.crc = <<0, 0>>
            /\ k <= Len(CentralDirPieces) \div 3 =>
                    /\ CentralDirEntry(k).header.data.crc = <<0, 0>>
                    /\ CentralDirEntry(k).info64.data.uncompressed_size = 0
                    /\ CentralDirEntry(k).info64.data.compressed_size = 2

\* C16: at most one member is active at any time: zw_begin_file called with
\* a non-empty path while a member is active ends that member first (residual
\* input flushed, end-of-block and padding emitted, data descriptor written,
\* central directory entry appended) before the new local header is written,
\* and zw_finish ends the active member before it writes the central directory.
C16_OneActiveMember ==
    /\ Len(LocalHeaders) - Len(DataDescriptors) \in {0, 1}
    /\ Active => Len(LocalHeaders) - Len(DataDescriptors) = 1
    /\ (call.op = "zw_begin_file" /\ call.valid /\ call.before.active) =>
            /\ EndedBefore("local_header")
            /\ result = TRUE => (LastEnded /\ NewSink[Len(NewSink)].kind = "name")
            /\ archive.bitcount \in {0, 3}
    /\ (call.op = "zw_finish" /\ call.before.active) =>
            /\ EndedBefore("central_dir")
            /\ result = TRUE => LastEnded

\* a member with input still buffered is ended by the zw_begin_file that
\* starts the next one
C16_Witness ==
    /\ call.op = "zw_begin_file" /\ call.valid /\ call.before.active
    /\ result = TRUE /\ Active
    /\ Len(archive.g_done[Len(archive.g_done)].data) % InTotal # 0
    /\ \E i \in 1..Len(NewSink) : NewSink[i].kind = "body"

\* C17: zw_begin_file with a NULL or empty path returns failure, hands no
\* local header to the sink, does not increment the member count and leaves
\* no new member active.
C17_BeginRejectsEmptyPath ==
    (call.op = "zw_begin_file" /\ ~call.valid) =>
        /\ result = FALSE
        /\ \A i \in 1..Len(NewSink) : NewSink[i].kind \in {"body", "data_desc"}
        /\ archive.num_files = call.before.num_files
        /\ Active =>
                /\ call.before.active
                /\ archive.current_file.start_offset < call.before.offset

\* a NULL or empty path offered while a member is active, which is ended
C17_Witness ==
    /\ call.op = "zw_begin_file" /\ ~call.valid
    /\ call.before.active /\ ~Active
    /\ call.before.num_files = 2
    /\ NewSink # <<>>

\* C18: whenever zw_begin_file, zw_write or zw_finish returns false the
\* session's memory is as it was before the call, the sink-error latch apart;
\* a zw_begin_file that fails on an empty path leaves the active member, its
\* counters and the central directory as they were.
C18_FailedCallLeavesState ==
    [][result' = FALSE => InMemory(archive') = InMemory(archive)]_vars

\* C19: the name length zw_begin_file uses is min(strlen(path), 65534); that
\* length is the local header's file_name_length, the number of name bytes
\* handed to the sink, the central directory entry's file_name_length and the
\* number of name bytes appended to the central directory; the stored name
\* fits its buffer, the inline 64 bytes or the grown one.
C19_NameLength ==
    /\ Len(Headers) = Len(archive.g_created)
    /\ \A k \in 1..Len(archive.g_created) :
            /\ Sink[Headers[k]].data.file_name_length = Len(Clamped(archive.g_created[k]))
            /\ MemberName(k).kind = "name"
            /\ MemberName(k).size = Len(Clamped(archive.g_created[k]))
            /\ MemberName(k).data = Clamped(archive.g_created[k])
            /\ k <= Len(CentralDirPieces) \div 3 =>
                /\ CentralDirEntry(k).header.data.file_name_length
                        = Len(Clamped(archive.g_created[k]))
                /\ CentralDirEntry(k).name.size = Len(Clamped(archive.g_created[k]))
                /\ CentralDirEntry(k).name.data = Clamped(archive.g_created[k])
    /\ Active =>
            /\ archive.current_file.name_length
                    = Len(Clamped(archive.g_created[Len(archive.g_created)]))
            /\ archive.current_file.name = Clamped(archive.g_created[Len(archive.g_created)])
            /\ archive.current_file.name_length < NameCapacity

\* a path longer than 65534 offered after the name buffer has grown once, in
\* a finished archive
C19_Witness ==
    /\ Finished /\ Len(archive.g_created) = 2
    /\ Len(archive.g_created[1]) = 64
    /\ Len(archive.g_created[2]) > 65535
    /\ CentralDirEntry(2).header.data.file_name_length = 65534
    /\ archive.current_file.name_sbm > 65535

\* C20: for every hour in 0..23, minute in 0..59 and second in 0..59 the
\* encoded time is second/2 | minute<<5 | hour<<11; for every year, month in
\* 1..12 and day in 1..31 the encoded date is day | month<<5 | (y-1980)<<9
\* with y the year clamped to 1980..2107; both fit 16 bits; the stamps taken
\* at creation are those of every local header and central directory entry.
C20_Stamps ==
    /\ EncodersExact
    /\ archive.time = DosTime(archive.g_clock)
    /\ archive.date = DosDate(archive.g_clock)
    /\ archive.time < 65536 /\ archive.date < 65536
    /\ (archive.g_clock = [year |-> 2024, month |-> 6, day |-> 15,
                           hour |-> 13, minute |-> 45, second |-> 32]) =>
            (archive.date = 22735 /\ archive.time = 28080)
    /\ \A k \in 1..Len(Headers) :
            /\ Sink[Headers[k]].data.file_time = DosTime(archive.g_clock)
            /\ Sink[Headers[k]].data.file_date = DosDate(archive.g_clock)
    /\ \A k \in 1..(Len(CentralDirPieces) \div 3) :
            /\ CentralDirEntry(k).header.data.file_time = DosTime(archive.g_clock)
            /\ CentralDirEntry(k).header.data.file_date = DosDate(archive.g_clock)

\* an archive of two members created in a year past 2107, at an odd second
C20_Witness ==
    /\ Finished /\ Len(Headers) = 2 /\ Len(CentralDirPieces) \div 3 = 2
    /\ archive.g_clock.year = 2108 /\ archive.g_clock.second = 59
    /\ archive.g_clock.hour = 23 /\ archive.g_clock.minute = 59
    /\ CentralDirEntry(2).header.data.file_date \div 512 = 127
    /\ CentralDirEntry(2).header.data.file_time % 32 = 29

\* the version array ends with an entry whose requirement mask is cmv::generic
EndsGeneric == cmv.versions[Len(cmv.versions)].requirements = generic

\* the first entry, in array order, whose requirement mask has no bit that is
\* absent from the capabilities the processor reports
FirstSupported ==
    LET detected == detect_system_caps(cmv.system)
    IN  CHOOSE k \in 1..Len(cmv.versions) :
            /\ cmv.versions[k].requirements \subseteq detected
            /\ \A j \in 1..(k - 1) : ~(cmv.versions[j].requirements \subseteq detected)

\* C21: given a version array whose last entry has requirement mask generic,
\* cmv::resolve terminates, returns the function of the first entry in array
\* order whose requirement mask has no bit absent from the detected system
\* capabilities, and never reads past the generic entry.
C21_Resolve ==
    /\ [](EndsGeneric =>
            /\ cmv.g_max_read <= Len(cmv.versions)
            /\ \A c \in Callers :
                /\ cmv.procs[c].pc # "fault"
                /\ cmv.procs[c].pc = "loop" => cmv.procs[c].candidate <= Len(cmv.versions)
                /\ cmv.procs[c].pc = "store" =>
                    /\ cmv.procs[c].found = cmv.versions[FirstSupported].function
                    /\ cmv.procs[c].candidate = FirstSupported)
    /\ \A c \in Callers :
            (EndsGeneric /\ cmv.procs[c].pc \in {"get_caps", "loop"})
                ~> (cmv.procs[c].pc = "store")

\* resolve returns the third of four versions, having passed over two
C21_Witness ==
    /\ Len(cmv.versions) = 4 /\ EndsGeneric
    /\ \E c \in Callers :
            /\ cmv.procs[c].pc = "store"
            /\ cmv.procs[c].candidate = 3
            /\ cmv.procs[c].found = "ssse3"
    /\ cmv.g_max_read = 3

\* C22: the first call through a pointer initialised with CMV_LAZY_RESOLVE
\* stores the resolved version into the pointer and forwards the call's
\* arguments to it, returning its result; every later call goes directly to
\* the resolved version and never re-enters the resolver; the value stored is
\* the one cmv::resolve returns for the same version array.
C22_LazyResolve ==
    /\ [](/\ (\E c \in Callers : cmv.procs[c].calls > 0) => cmv.g_entries >= 1
          /\ cmv.g_completed > 0 => cmv.pointer # CMV_LAZY_RESOLVE
          /\ (EndsGeneric /\ cmv.pointer # CMV_LAZY_RESOLVE) =>
                cmv.pointer = cmv.versions[FirstSupported].function
          /\ \A c \in Callers :
                /\ cmv.procs[c].g_later => ~cmv.procs[c].g_entered
                /\ cmv.procs[c].g_later =>
                    /\ cmv.procs[c].pc = "idle"
                    /\ cmv.procs[c].ret = Apply(cmv.pointer, cmv.procs[c].args)
                /\ (cmv.procs[c].calls > 0 /\ cmv.procs[c].pc = "idle") =>
                    cmv.procs[c].ret = Apply(cmv.pointer, cmv.procs[c].args))
    /\ [][/\ (cmv.pointer = CMV_LAZY_RESOLVE /\ cmv.g_completed' > cmv.g_completed) =>
                cmv.g_entries >= 1
          /\ cmv.pointer' # cmv.pointer =>
                \E c \in Callers : /\ cmv.procs[c].pc = "store"
                                   /\ cmv.pointer' = cmv.procs[c].found
          /\ cmv.pointer # CMV_LAZY_RESOLVE => cmv.pointer' = cmv.pointer]_vars
    /\ \A c \in Callers :
            (EndsGeneric /\ cmv.procs[c].pc = "get_caps")
                ~> (cmv.procs[c].pc = "idle" /\ cmv.procs[c].ret # NoResult)

\* a second call made after the first returned: it went straight to the
\* version the first call stored, and the resolver was entered once
C22_Witness ==
    /\ EndsGeneric /\ cmv.g_entries = 1 /\ cmv.g_completed = 3
    /\ cmv.pointer = "ssse3"
    /\ \E c \in Callers :
            /\ cmv.procs[c].calls = 2 /\ cmv.procs[c].pc = "idle"
            /\ cmv.procs[c].g_later /\ ~cmv.procs[c].g_entered
            /\ cmv.procs[c].ret = <<"ssse3", 20>>

\* C23: whenever no member is active (after create, after a member has been
\* ended, after a begin_file that returned failure) the bit accumulator is
\* empty (bitcount = 0 and bitbuf = 0) and the output buffer is flushed
\* (out_cursor = 0), for every sequence of public operations, including write
\* calls made while no member is active.
C23_IdleEncoderEmpty ==
    (~Active /\ ~Finished) =>
        /\ archive.bitcount = 0
        /\ archive.bitbuf = 0
        /\ Len(archive.out) = 0

\* C24: for every member the encoder emits exactly one DEFLATE block: the
\* prelude BFINAL=1, BTYPE=01 exactly once, at begin_file, as the first 3 bits
\* of the body; the end-of-block symbol 256 exactly once, at member end, after
\* all literals and matches of the member; and nothing but zero padding to the
\* byte boundary after it in the body.
C24_OneBlock ==
    /\ (call.op = "zw_begin_file" /\ result) =>
            /\ archive.out = <<>>
            /\ archive.bitcount = 3
            /\ archive.bitbuf = 3
            /\ archive.g_syms = <<>>
    /\ Active => EobCount(archive.g_syms) = 0
    /\ \A k \in 1..Len(archive.g_done) :
            /\ EobCount(archive.g_done[k].syms) = 1
            /\ archive.g_done[k].syms[Len(archive.g_done[k].syms)] = <<"eob">>
            /\ (MembersWhole /\ k <= Len(Descs)) =>
                    BytesOf(MemberBody(k)) = OneBlock(archive.g_done[k].syms)

\* C25: in_cursor is at most 32,768 (in_total) at every point, strictly below
\* it whenever a public operation returns, every input flush that processes
\* data resets it to 0, and a write of any length is consumed in batches that
\* never make the cursor exceed 32,768.
C25_InCursor ==
    /\ [](/\ archive.in_cursor < archive.in_total
          /\ archive.g_in_peak <= archive.in_total
          /\ archive.in_total = InTotal
          /\ (call.op \in {"zw_begin_file", "zw_finish"} /\ call.before.active) =>
                archive.in_cursor = 0)
    /\ [][(call'.op = "zw_write" /\ result') =>
            /\ archive'.in_cursor =
                (archive.in_cursor + Len(archive'.g_data) - Len(archive.g_data))
                    % archive.in_total
            /\ (archive.in_cursor + Len(archive'.g_data) - Len(archive.g_data)
                    >= archive.in_total) => archive'.g_in_peak = archive.in_total]_vars

\* a write longer than twice the window made with a byte pending: the cursor
\* reached in_total and ended below it
C25_Witness ==
    /\ call.op = "zw_write" /\ result /\ Active
    /\ Len(archive.g_data) = 2 * InTotal + 2
    /\ archive.g_in_peak = InTotal
    /\ archive.in_cursor = 2

\* C26: after every flush_bits the bit count is below 8, the accumulator holds
\* no bits above the bit count (bitbuf < 2^bitcount), the bit count plus the
\* longest code added (13 bits) never exceeds the accumulator width, and the
\* output cursor is strictly below the output buffer size, so that no byte is
\* stored past the end of the output buffer.
C26_FlushBits ==
    /\ archive.g_bits_ok
    /\ archive.bitcount < 8
    /\ archive.bitbuf < 2 ^ archive.bitcount
    /\ archive.bitcount + longest_code <= bitbuf_width
    /\ Len(archive.out) < archive.out_total
    /\ archive.out_total = OutTotal
    /\ CodesFit

\* the output buffer was filled and handed over during a write that left
\* seven bits in the accumulator
C26_Witness ==
    /\ call.op = "zw_write" /\ result
    /\ \E k \in (call.before.sink_len + 1)..Len(Sink) :
            Sink[k].kind = "body" /\ Sink[k].size = OutTotal
    /\ archive.bitcount = 7 /\ archive.bitbuf >= 64
    /\ Len(archive.out) > 0

\* C27: every offset stored in a hash-table slot refers to a position inside
\* the window whose bytes are bytes of the current member; a window slide
\* rewrites each entry e >= in_cursor as e - in_cursor in the same relative
\* order, drops every entry below in_cursor, and moves the 32,768 bytes from
\* in_cursor down to window position 0, so that each surviving entry
\* designates the same bytes as before.
C27_HashEntries ==
    /\ Active => \A h \in DOMAIN archive.hash_table :
                    \A k \in 1..Len(archive.hash_table[h]) :
                        EntryInMember(h, archive.hash_table[h][k])
    /\ \A n \in 1..Len(archive.g_slides) : SlideKeeps(archive.g_slides[n])

\* a slide in which a slot lost an entry of the batch before and kept, moved
\* down, an entry of the batch flushed, which is in the table afterwards
C27_Witness ==
    /\ Active /\ call.op = "zw_write"
    /\ \E n \in 1..Len(archive.g_slides) : \E h \in DOMAIN archive.hash_table :
            /\ archive.g_slides[n].in_cursor = InTotal
            /\ \E k \in 1..Len(archive.g_slides[n].hash_before[h]) :
                    archive.g_slides[n].hash_before[h][k] < InTotal
            /\ Len(archive.g_slides[n].hash_after[h]) >= 1
            /\ archive.hash_table[h] = archive.g_slides[n].hash_after[h]

C29_BackReferences ==
    /\ archive.g_assert_ok
    /\ CountmCapped
    /\ MatchesInBounds(archive.g_syms)
    /\ \A k \in 1..Len(archive.g_done) : MatchesInBounds(archive.g_done[k].syms)
    /\ \A n \in 1..Len(archive.g_visits) :
            LET v == archive.g_visits[n]
            IN  v.sym[1] = "match" =>
                    /\ v.sym[2] = v.best
                    /\ v.sym[2] >= 3 /\ v.sym[2] <= max_match
                    /\ v.i + v.sym[2] <= v.data_len
                    /\ \E k \in 1..Len(v.before) : v.before[k] = v.bestloc
                    /\ v.sym[3] = (v.i + InTotal) - v.bestloc
                    /\ v.sym[3] >= 1 /\ v.sym[3] <= InTotal - 1

\* a back-reference at the largest distance that is allowed, reaching the end
\* of the batch
C29_Witness ==
    \E n \in 1..Len(archive.g_visits) :
        /\ archive.g_visits[n].sym[1] = "match"
        /\ archive.g_visits[n].sym[3] = InTotal - 1
        /\ archive.g_visits[n].i + archive.g_visits[n].sym[2] = archive.g_visits[n].data_len

\* C30: lazy matching: when a match of length L is found at position i, it is
\* discarded (data[i] emitted as a literal, i advanced by 1) if and only if
\* some candidate in the hash slot of position i+1 that lies within the window
\* gives a common-prefix length strictly greater than L; a candidate of length
\* equal to L never discards the match, and otherwise the match is emitted
\* and i advances by L.
C30_LazyMatching ==
    \A n \in 1..Len(archive.g_visits) :
        LET v == archive.g_visits[n]
        IN  /\ v.bestloc = NoLoc => v.sym = <<"lit", v.byte>>
            /\ v.bestloc # NoLoc =>
                /\ v.best >= 3
                /\ (v.sym = <<"lit", v.byte>>) <=> (LazyLongest(v) > v.best)
                /\ LazyLongest(v) <= v.best =>
                        v.sym = <<"match", v.best, (v.i + InTotal) - v.bestloc>>
            /\ IF n < Len(archive.g_visits) /\ archive.g_visits[n + 1].i > v.i
               THEN archive.g_visits[n + 1].i = v.i + Advance(v)
               ELSE v.i + Advance(v) >= v.data_len - 3

\* a match of length 3 given up for a longer one at the next position
C30_Witness ==
    \E n \in 1..(Len(archive.g_visits) - 1) :
        /\ archive.g_visits[n].bestloc # NoLoc /\ archive.g_visits[n].best = 3
        /\ LazyLongest(archive.g_visits[n]) = 4
        /\ archive.g_visits[n].sym[1] = "lit"
        /\ archive.g_visits[n + 1].i = archive.g_visits[n].i + 1
        /\ archive.g_visits[n + 1].sym = <<"match", 4, archive.g_visits[n + 1].sym[3]>>

\* C31: for every match length in 3..258 the emitter selects the unique index
\* j with lengthc[j] <= length <= lengthc[j+1]-1, emits symbol 257+j and then
\* lengtheb[j] extra bits holding length - lengthc[j] < 2^lengtheb[j]; for
\* every distance in 1..32,767 it selects the unique j in 0..29 with
\* distc[j] <= d <= distc[j+1]-1 and emits disteb[j] extra bits holding
\* d - distc[j] < 2^disteb[j]; decoding symbol and extra bits gives back the
\* length and the distance.
C31_LengthDistanceCodes ==
    /\ TablesExact
    /\ call.op = "emit" =>
            /\ IndexExact(lengthc, lengtheb, call.best)
            /\ IndexExact(distc, disteb, call.d)
            /\ (call.best = 3 /\ call.d \in {distc[j] : j \in 1..30}) => IndexExactAround(call.d)
            /\ FixedLengthSymbol(EmittedBits).sym = 257 + code_index(lengthc, call.best, 0)
            /\ InflateMatch(EmittedBits) = <<call.best, call.d, Len(EmittedBits)>>

\* a length with 4 extra bits and the farthest distance, with 13
C31_Witness ==
    /\ call.op = "emit" /\ call.best = 100 /\ call.d = 32767
    /\ FixedLengthSymbol(EmittedBits).sym = 279
    /\ Len(EmittedBits) = 7 + 4 + 5 + 13
    /\ LsbValue(EmittedBits, 8, 4) = 1 /\ LsbValue(EmittedBits, 17, 13) = 8190

\* C34: zw__zip_encode_time clamps out-of-range inputs so that for any hour,
\* minute and second the result has its hour field (bits 11-15) at most 23,
\* its minute field (bits 5-10) at most 59 and its seconds field (bits 0-4) at
\* most 29, and no field overflows into its neighbour or past 16 bits: the
\* result is the three clamped fields side by side.
C34_TimeFields ==
    call.op = "zw__zip_encode_time" =>
        /\ result \in 0..65535
        /\ result \div 2048 <= 23
        /\ (result \div 32) % 64 <= 59
        /\ result % 32 <= 29
        /\ result % 32 = (IF call.second > 59 THEN 59 ELSE call.second) \div 2
        /\ (result \div 32) % 64 = (IF call.minute > 59 THEN 59 ELSE call.minute)
        /\ result \div 2048 = (IF call.hour > 23 THEN 23 ELSE call.hour)

\* C32: the bytes handed to the sink for a member depend only on the
\* concatenation of the data written to it, not on how that data is split
\* across write calls: a finished session has handed the sink what the session
\* with the same member names and contents and one write per member hands it.
C32_WritePartition ==
    Finished => Sink = OneWriteEachSink(archive.g_clock, archive.g_done)

\* C33: no back-reference crosses a member boundary: every match emitted for
\* a member has a distance no greater than the number of bytes of that same
\* member that precede the match position, whatever the previous member left
\* in the window and the hash table.
C33_MemberBoundary ==
    /\ Active => MatchesWithinMember(archive.g_syms)
    /\ \A k \in 1..Len(archive.g_done) : MatchesWithinMember(archive.g_done[k].syms)

\* a second member with the data of the first, both compressed with a match
C33_Witness ==
    /\ Len(archive.g_done) = 1 /\ Active
    /\ HasMatch(archive.g_done[1].syms)
    /\ HasMatch(archive.g_syms)
    /\ SubSeq(archive.g_data, 1, InTotal) = SubSeq(archive.g_done[1].data, 1, InTotal)

====
